---- MODULE Spec2Model ----
(***************************************************************************)
(* Verification model of the ME405/ME507 real-time task framework:         *)
(*   - TaskQueue<T>  (borrowed_code/ridgely_code/taskqueue.h)              *)
(*   - TaskShare<T>  (ridgely_code/lib/frtcpp/taskshare.h)                 *)
(*   - rs232 receive buffer (borrowed_code/ridgely_code/rs232int.cpp)      *)
(* Each component has its own next-state relation and specification; the   *)
(* variables of the other components keep their initial values.            *)
(***************************************************************************)
EXTENDS Integers, Sequences, FiniteSets, TLC

(***************************************************************************)
(* Bounds of the model.                                                    *)
(***************************************************************************)
\* capacity given to the TaskQueue constructor (queue_size)
QueueSize == 3
\* largest finite wait bound given to the TaskQueue constructor
MaxWait == 1
\* number of bytes the UART receives in one run of the serial model
MaxArrivals == 34
\* number of put() calls that are accepted in one run of the queue model
MaxPuts == 4

\* portMAX_DELAY, scaled: the longest block time the kernel counts; with
\* INCLUDE_vTaskSuspend == 0 (FreeRTOSConfig.h:225) it is a finite timeout
portMAX_DELAY == MaxWait + 2

\* size of the serial receive buffer (rs232int.h:82)
RSINT_BUF_SIZE == 32

\* The items the producer puts: the k-th accepted item is the number k.  The
\* queue copies items without looking at them, so items that are all
\* different show every loss, duplication and reordering.
Items == 1..MaxPuts
\* the value of a default-constructed (zero) T
DefaultT == 0

VARIABLES
    \* ---- TaskQueue<T> ----
    q,              \* contents of the kernel queue behind `handle`, head first
    ticks_to_wait,  \* TaskQueue::ticks_to_wait
    prod_pc,        \* producer task: "idle", "blocked", "done"
    prod_op,        \* the call the producer is in: "put" or "butt_in"
    prod_item,      \* the item of the producer's call
    prod_waited,    \* ticks the producer has been blocked in its call
    put_result,     \* what the producer's call returned
    cons_pc,        \* consumer task: "idle", "blocked", "done"
    cons_op,        \* the call the consumer is in: "get" or "look_at"
    cons_waited,    \* ticks the consumer has been blocked in its call
    recv_item,      \* the local recv_item of get() / look_at()
    got_item,       \* whether the kernel call copied an item into recv_item
    accepted,       \* history: items whose put() returned true, in order
    received,       \* history: items get() took out of the queue, in order
    runPuts,        \* history: items put since the queue was last empty
    runGets,        \* history: items got since the puts of runPuts ended
    runOK,          \* history: the run is puts followed by gets only
    peeked,         \* history: the item look_at() last returned, until the
                    \*   next get() has returned (0: none)
    fi_stage,       \* history: 1 after an accepted put(a), 2 after a butt_in(b)
                    \*   accepted right after it, 3 after two gets, else 0
    fi_a,           \* history: the item a of that put()
    fi_b,           \* history: the item b of that butt_in()
    fi_gets,        \* history: what the get() calls after them returned
    fi_len,         \* history: the number of items queued before put(a)
    \* ---- TaskShare<uint32_t> ----
    the_data,       \* TaskShare::the_data, as its four bytes, low byte first
    sh_crit,        \* the task inside portENTER_CRITICAL .. portEXIT_CRITICAL
    wr_pc,          \* writer task: "idle", "enter", "copy"
    wr_val,         \* new_data of the writer's put()
    wr_idx,         \* the byte of the_data the writer stores next
    rd_pc,          \* reader tasks: "delay", "idle", "enter", "copy"
    rd_idx,         \* the byte of the_data a reader loads next
    temporary_copy, \* temporary_copy of each reader's get(), as bytes
    rd_result,      \* what each reader's last get() returned
    rd_done,        \* history: the reader's last get() has returned
    rd_after,       \* history: the get() began after two puts, none running
    rd_expect,      \* history: value of the last completed put when get() began
    puts_done,      \* history: completed put() calls, counted up to 2
    last_put,       \* history: value of the last completed put()
    prev_put,       \* history: value of the completed put() before that
    put_values,     \* history: values some put() was called with
    \* ---- rs232 receive buffer of port 0 ----
    rcv0_buffer,        \* the receive buffer, indices 0 .. RSINT_BUF_SIZE - 1
    rcv0_read_index,    \* where getchar() reads next
    rcv0_write_index,   \* where the receive ISR writes next
    arrivals,           \* bytes the UART has received so far
    g_pc,               \* task inside getchar(): "idle", "wait", "read",
                        \*   "inc_load", "inc_store", "wrap"
    g_reg,              \* register of getchar() holding the read index
    recv_char,          \* the local recv_char of getchar()
    chk_result,         \* what the last check_for_char() returned
    got,                \* history: the bytes getchar() returned, in order
    first_get_at        \* history: arrivals when getchar() was first called

qvars == <<q, ticks_to_wait, prod_pc, prod_op, prod_item, prod_waited,
           put_result, cons_pc, cons_op, cons_waited, recv_item, got_item,
           accepted, received, runPuts, runGets, runOK,
           peeked, fi_stage, fi_a, fi_b, fi_gets, fi_len>>

\* TaskShare<int8_t> counter (p_share_counter) and its ++ / -- operators
VARIABLES
    counter_data,   \* the_data of the counter share, an int8_t
    c_pc,           \* per task: position inside an operator call
    c_op,           \* per task: the operator called
    c_reg,          \* per task: the register the_data++ / the_data-- works in
    c_result,       \* per task: the value the caller gets from the operator
    c_after,        \* history, per task: the value the operator stored
    c_init,         \* history: the counter before the first operator call
    c_incs,         \* history: increments stored so far
    c_decs,         \* history: decrements stored so far
    c_calls,        \* history: operator calls made so far
    c_contended     \* history: a task had to wait for another's critical
                    \*   section

\* time_stamp values and the operators applied to them
VARIABLES
    ts_t1,          \* the left operand (operator - may change it)
    ts_t2,          \* the right operand
    ts_orig1,       \* history: the left operand as it was given
    ts_cmp,         \* the results of the comparison operators on (t1, t2)
    ts_add,         \* t1 + t2
    ts_diff,        \* t1 - t2
    ts_sum,         \* t2 + (t1 - t2)
    ts_same,        \* t2 + (t1 - t2) == t1
    ts_pc           \* which operators have been applied

\* the tick timer and time_stamp::set_to_now ()
VARIABLES
    TCNT,           \* the hardware timer's count
    xTickCount,     \* the kernel's tick count
    tick_pending,   \* the compare match interrupt is flagged, its ISR has
                    \*   not run yet
    now_pc,         \* position inside set_to_now ()
    now_stamp,      \* the time stamp being set
    matches,        \* history: compare matches so far, the true tick count
    matches_at_hw   \* history: compare matches when TCNT was read

\* a TaskBase object and the kernel task it wraps
VARIABLES
    handle,         \* TaskBase::handle: "null" (0), "tcb" or "garbage"
    tk_ctor,        \* "allocated", then "constructed"
    task_status,    \* what xTaskCreate returned: "none", "pdPASS", "fail"
    tk_pc,          \* the kernel task: "none", "ready", "run", "returned",
                    \*   "park", "delayed" or "deleted"
    tk_delay,       \* ticks left of the task's vTaskDelay
    runs,           \* passes through the loop of the user's run ()
    tk_valid,       \* the last result of operator bool ("untested" before)
    tk_parked,      \* history: vTaskDelay was called after run () returned
    tk_wakes,       \* history: delays that have expired since
    tk_user_late    \* history: user code has run after run () returned

svars == <<the_data, sh_crit, wr_pc, wr_val, wr_idx, rd_pc, rd_idx,
           temporary_copy, rd_result, rd_done, rd_after, rd_expect,
           puts_done, last_put, prev_put, put_values>>

rvars == <<rcv0_buffer, rcv0_read_index, rcv0_write_index, arrivals, g_pc,
           g_reg, recv_char, chk_result, got, first_get_at>>

\* the share variables other than the interrupt mask
svarsOwn == <<the_data, wr_pc, wr_val, wr_idx, rd_pc, rd_idx,
              temporary_copy, rd_result, rd_done, rd_after, rd_expect,
              puts_done, last_put, prev_put, put_values>>

cvars == <<counter_data, c_pc, c_op, c_reg, c_result, c_after, c_init,
           c_incs, c_decs, c_calls, c_contended>>

tvars == <<ts_t1, ts_t2, ts_orig1, ts_cmp, ts_add, ts_diff, ts_sum, ts_same,
           ts_pc>>

nvars == <<TCNT, xTickCount, tick_pending, now_pc, now_stamp, matches,
           matches_at_hw>>

kvars == <<handle, tk_ctor, task_status, tk_pc, tk_delay, runs, tk_valid,
           tk_parked, tk_wakes, tk_user_late>>

\* gear_shifter (src/src/ATMega/gear_shifter.cpp) and the truck data it shares
VARIABLES
    state,          \* TaskBase::state, the cursor of the task's state machine
    desired_gear,   \* semi_data->desired_gear
    actual_gear,    \* semi_data->actual_gear
    gs_pc,          \* where run () stands
    gs_to,          \* the shift run () has chosen (0: none)
    gs_next,        \* the value run () will assign to state after that shift
    gs_ctx,         \* the context the last step ran in
    gs_got,         \* get_actual_level () has been called
    gs_result,      \* what the last get_actual_level () returned
    gs_actual_then, \* semi_data->actual_gear when it returned
    gs_quiet_then   \* run () was not between a shift and its assignment then

gvars == <<state, desired_gear, actual_gear, gs_pc, gs_to, gs_next, gs_ctx,
    gs_got, gs_result, gs_actual_then, gs_quiet_then>>

\* a periodic task: the loop of task_brightness::run () ending in delay_from_for_ms ()
VARIABLES
    du_tick,        \* the kernel's tick count, xTaskGetTickCount ()
    previousTicks,  \* the reference tick the task passes by reference
    du_pc,          \* where run () stands
    du_ms,          \* the period the task passes, in milliseconds
    du_wake,        \* the tick the kernel will make the task ready at
    du_t0,          \* the reference tick before the first call
    du_calls,       \* calls of delay_from_for_ms () so far
    du_releases,    \* the ticks the task was made ready at, in order
    du_overrun,     \* some pass of the loop took longer than the period
    du_slack        \* some pass of the loop took at least one tick

dvars == <<du_tick, previousTicks, du_pc, du_ms, du_wake, du_t0, du_calls,
    du_releases, du_overrun, du_slack>>

\* the list of shared data items (BaseShare) and a print_all_shares () walking it
VARIABLES
    p_newest,       \* BaseShare::p_newest, the head of the list (0: NULL)
    p_next,         \* p_next of each item
    br_order,       \* the items constructed so far, in the order of construction
    br_pc,          \* where the printout stands
    br_at,          \* the item whose print_in_list () runs
    br_visited,     \* the items printed in this printout, in order
    br_order_then   \* the items that were constructed when the printout began

bvars == <<p_newest, p_next, br_order, br_pc, br_at, br_visited,
    br_order_then>>

\* the list of tasks (TaskBase) and a printout walking it
VARIABLES
    last_created_task_pointer,\* the task constructed last (0: NULL)
    prev_task_pointer,\* prev_task_pointer of each task
    tl_order,       \* the tasks constructed so far, in the order of construction
    tl_pc,          \* where the printout stands
    tl_which,       \* the printout under way: print_task_list or print_task_stacks
    tl_at,          \* the task whose print_..._in_list () runs
    tl_visited,     \* the tasks printed in this printout, in order
    tl_order_then   \* the tasks that were constructed when the printout began

lvars == <<last_created_task_pointer, prev_task_pointer, tl_order, tl_pc,
    tl_which, tl_at, tl_visited, tl_order_then>>

\* rs232::putchar () (src/borrowed_code/ridgely_code/rs232int.cpp)
VARIABLES
    UDR,            \* the data register of the UART: the last character written (0: none)
    TXC_cleared,    \* the TXC flag has been cleared by writing a one to it
    tx_pc,          \* where putchar () stands
    tx_chout,       \* the character putchar () was called with
    tx_count,       \* count, the uint16_t loop counter
    tx_polls,       \* how often this call has tested the UDRE flag
    tx_wrote,       \* this call has written the data register
    tx_UDR_before   \* the data register when putchar () was called

xvars == <<UDR, TXC_cleared, tx_pc, tx_chout, tx_count, tx_polls, tx_wrote,
    tx_UDR_before>>

\* the receivers of both serial ports of a dual-port chip
VARIABLES
    rcv_buffer,     \* rcv0_buffer and rcv1_buffer, by port
    rcv_read_index, \* rcv0_read_index and rcv1_read_index, by port
    rcv_write_index,\* rcv0_write_index and rcv1_write_index, by port
    pp_arrived,     \* characters received so far, by port
    pp_op,          \* the last operation that ran
    pp_port,        \* the port that operation was for
    pp_touched,     \* the ports whose buffer or indices it read or wrote
    pp_char,        \* what the last getchar () returned
    pp_avail        \* what the last check_for_char () returned

pvars == <<rcv_buffer, rcv_read_index, rcv_write_index, pp_arrived, pp_op,
    pp_port, pp_touched, pp_char, pp_avail>>

\* glob_of_probs of task_comm, written by task_source and read by task_sink
VARIABLES
    glob_of_probs,  \* the global uint32_t, as its four bytes in memory
    toggler,        \* toggler of task_source::run ()
    gp_wi,          \* bytes of the current assignment the source has stored
    gp_written,     \* the source has completed an assignment
    gp_pc,          \* where the sink stands
    gp_ri,          \* bytes of the current read the sink has loaded
    received_data,  \* received_data of task_sink::run (), as four bytes
    global_errors,  \* global_errors of task_sink
    gp_written_then,\* the source had completed an assignment when the read began
    gp_switched     \* the other task ran while this read or the write under it was under way

ovars == <<glob_of_probs, toggler, gp_wi, gp_written, gp_pc, gp_ri,
    received_data, global_errors, gp_written_then, gp_switched>>

\* communication_data (src/my_src/communication_data.cpp)
VARIABLES
    data_for_tasks, \* the private semi_truck_data_t of the object, by field
    cd_written,     \* the fields that have been assigned since construction
    cd_op,          \* the last call: a setter or a getter
    cd_field,       \* the field that call was named after
    cd_val          \* the value passed to the setter, or returned by the getter

evars == <<data_for_tasks, cd_written, cd_op, cd_field, cd_val>>

\* mega_comm_task (src/doxy/mega_comm_task.cpp), the link to the Raspberry Pi
VARIABLES
    mc_pc,          \* where the task stands
    mc_crit,        \* the task is between portENTER_CRITICAL () and portEXIT_CRITICAL ()
    mc_rx,          \* the characters received from the Pi and not yet taken by getchar ()
    mc_arrived,     \* characters received from the Pi so far
    mc_k,           \* the getchar () calls read_from_pi () has completed
    mc_ret_val,     \* ret_val of read_16bit_val ()
    mc_data,        \* data_for_tasks of the communication_data object
    mc_tx,          \* the characters written to the Pi, in order
    mc_reads,       \* completed calls of read_from_pi ()
    mc_writes       \* completed calls of write_to_pi ()

mvars == <<mc_pc, mc_crit, mc_rx, mc_arrived, mc_k, mc_ret_val, mc_data,
    mc_tx, mc_reads, mc_writes>>

\* a 16-bit value sent with write_16bit_val () and read back with read_16bit_val ()
VARIABLES
    rt_pc,          \* where the round trip stands
    rt_v,           \* the value write_16bit_val () was called with
    rt_signed,      \* plain char is signed in this build
    rt_bytes,       \* the bytes put on the line, in order
    rt_i,           \* i of the loop in read_16bit_val ()
    rt_ret_val      \* ret_val of read_16bit_val ()

wvars == <<rt_pc, rt_v, rt_signed, rt_bytes, rt_i, rt_ret_val>>

\* a circ_buffer<qType, qSize> and the calls made on it
VARIABLES
    cb_pc,          \* "unbuilt" before the constructor has run, "built" after
    buffer,         \* qType buffer[qSize]
    i_put,          \* index where newest data will be written
    i_get,          \* index where oldest data was written
    how_full,       \* how many elements are full at this time
    cb_held,        \* the items put and not yet taken or overwritten, oldest first
    cb_puts,        \* number of put () and jam () calls made
    cb_op,          \* the call made last
    cb_index,       \* the index the last operator[] was called with
    cb_full_then,   \* how_full when the last operator[] was called
    cb_held_then,   \* the items held when the last operator[] was called
    cb_result,      \* what the last call returned
    cb_outside      \* the last operator[] read an element outside buffer[]

uvars == <<cb_pc, buffer, i_put, i_get, how_full, cb_held, cb_puts, cb_op,
    cb_index, cb_full_then, cb_held_then, cb_result, cb_outside>>

\* an i2c_master, the tasks that call it and the bus
VARIABLES
    i2c_mutex,      \* the task that holds the mutex, or NoTask
    i2c_pc,         \* where each task stands in its call
    i2c_op,         \* the call each task made last
    i2c_count,      \* count of the last multi-byte call of each task
    i2c_index,      \* index of the loop in the multi-byte read ()
    i2c_stored,     \* bytes the last read of each task stored through p_buffer
    i2c_result,     \* how the last call of each task ended
    bus_open        \* a start condition has been sent and no stop after it

ivars == <<i2c_mutex, i2c_pc, i2c_op, i2c_count, i2c_index, i2c_stored,
    i2c_result, bus_open>>

\* the tasks created in main_mega.cpp under the scheduler
VARIABLES
    sch_running,    \* the task the processor is executing
    sch_pc,         \* "ready" or "delayed", for each task
    sch_returned,   \* run () of the task has returned to the wrapper
    sch_pass,       \* parity of the passes each task has made of its loop
    sch_tick        \* the tick count, modulo MaxSchedTick + 1

hvars == <<sch_running, sch_pc, sch_returned, sch_pass, sch_tick>>

vars == <<qvars, svars, rvars, cvars, tvars, nvars, kvars, gvars, dvars,
    bvars, lvars, xvars, pvars, ovars, evars, mvars, wvars, uvars, ivars,
    hvars>>

\* the variables an action of one component leaves alone
qOthers == UNCHANGED <<svars, rvars, cvars, tvars, nvars, kvars, gvars,
    dvars, bvars, lvars, xvars, pvars, ovars, evars, mvars, wvars, uvars, ivars,
    hvars>>
sOthers == UNCHANGED <<qvars, rvars, cvars, tvars, nvars, kvars, gvars,
    dvars, bvars, lvars, xvars, pvars, ovars, evars, mvars, wvars, uvars, ivars,
    hvars>>
rOthers == UNCHANGED <<qvars, svars, cvars, tvars, nvars, kvars, gvars,
    dvars, bvars, lvars, xvars, pvars, ovars, evars, mvars, wvars, uvars, ivars,
    hvars>>
cOthers == UNCHANGED <<qvars, svarsOwn, rvars, tvars, nvars, kvars, gvars,
    dvars, bvars, lvars, xvars, pvars, ovars, evars, mvars, wvars, uvars, ivars,
    hvars>>
tOthers == UNCHANGED <<qvars, svars, rvars, cvars, nvars, kvars, gvars,
    dvars, bvars, lvars, xvars, pvars, ovars, evars, mvars, wvars, uvars, ivars,
    hvars>>
nOthers == UNCHANGED <<qvars, svarsOwn, rvars, cvars, tvars, kvars, gvars,
    dvars, bvars, lvars, xvars, pvars, ovars, evars, mvars, wvars, uvars, ivars,
    hvars>>
kOthers == UNCHANGED <<qvars, svars, rvars, cvars, tvars, nvars, gvars,
    dvars, bvars, lvars, xvars, pvars, ovars, evars, mvars, wvars, uvars, ivars,
    hvars>>
gOthers == UNCHANGED <<qvars, svars, rvars, cvars, tvars, nvars, kvars,
    dvars, bvars, lvars, xvars, pvars, ovars, evars, mvars, wvars, uvars, ivars,
    hvars>>
dOthers == UNCHANGED <<qvars, svars, rvars, cvars, tvars, nvars, kvars,
    gvars, bvars, lvars, xvars, pvars, ovars, evars, mvars, wvars, uvars, ivars,
    hvars>>
bOthers == UNCHANGED <<qvars, svars, rvars, cvars, tvars, nvars, kvars,
    gvars, dvars, lvars, xvars, pvars, ovars, evars, mvars, wvars, uvars, ivars,
    hvars>>
lOthers == UNCHANGED <<qvars, svars, rvars, cvars, tvars, nvars, kvars,
    gvars, dvars, bvars, xvars, pvars, ovars, evars, mvars, wvars, uvars, ivars,
    hvars>>
xOthers == UNCHANGED <<qvars, svars, rvars, cvars, tvars, nvars, kvars,
    gvars, dvars, bvars, lvars, pvars, ovars, evars, mvars, wvars, uvars, ivars,
    hvars>>
pOthers == UNCHANGED <<qvars, svars, rvars, cvars, tvars, nvars, kvars,
    gvars, dvars, bvars, lvars, xvars, ovars, evars, mvars, wvars, uvars, ivars,
    hvars>>
oOthers == UNCHANGED <<qvars, svars, rvars, cvars, tvars, nvars, kvars,
    gvars, dvars, bvars, lvars, xvars, pvars, evars, mvars, wvars, uvars, ivars,
    hvars>>
eOthers == UNCHANGED <<qvars, svars, rvars, cvars, tvars, nvars, kvars,
    gvars, dvars, bvars, lvars, xvars, pvars, ovars, mvars, wvars, uvars, ivars,
    hvars>>
mOthers == UNCHANGED <<qvars, svars, rvars, cvars, tvars, nvars, kvars,
    gvars, dvars, bvars, lvars, xvars, pvars, ovars, evars, wvars, uvars, ivars,
    hvars>>
wOthers == UNCHANGED <<qvars, svars, rvars, cvars, tvars, nvars, kvars,
    gvars, dvars, bvars, lvars, xvars, pvars, ovars, evars, mvars, uvars, ivars,
    hvars>>
uOthers == UNCHANGED <<qvars, svars, rvars, cvars, tvars, nvars, kvars,
    gvars, dvars, bvars, lvars, xvars, pvars, ovars, evars, mvars, wvars, ivars,
    hvars>>
iOthers == UNCHANGED <<qvars, svars, rvars, cvars, tvars, nvars, kvars,
    gvars, dvars, bvars, lvars, xvars, pvars, ovars, evars, mvars, wvars, uvars,
    hvars>>
hOthers == UNCHANGED <<qvars, svars, rvars, cvars, tvars, nvars, kvars,
    gvars, dvars, bvars, lvars, xvars, pvars, ovars, evars, mvars, wvars, uvars,
    ivars>>

(***************************************************************************)
(* Kernel queue primitives (FreeRTOS), as consumed at the kernel boundary. *)
(***************************************************************************)
xQueueSendToBack(queue, item) == Append(queue, item)

xQueueSendToFront(queue, item) == <<item>> \o queue

uxQueueMessagesWaiting(queue) == Len(queue)

QueueIsFull(queue) == Len(queue) >= QueueSize

IsPrefix(s, t) == Len(s) <= Len(t) /\ \A i \in 1..Len(s) : s[i] = t[i]

(***************************************************************************)
(* TaskQueue<T>                                                            *)
(***************************************************************************)
\* a put() that passes the constructor's wait bound nowhere and blocks for
\* portMAX_DELAY instead
put_wait_forever == portMAX_DELAY

\* put(): the block time handed to xQueueSendToBack
put_wait == ticks_to_wait

\* a put() that calls xQueueSendToFront, as butt_in() does
put_enqueue_front(queue, item) == xQueueSendToFront(queue, item)

\* put(): the kernel call that stores the item
put_enqueue(queue, item) == xQueueSendToBack(queue, item)

\* a butt_in() that calls xQueueSendToBack, as put() does
butt_in_enqueue_back(queue, item) == xQueueSendToBack(queue, item)

\* butt_in(): the kernel call that stores the item
butt_in_enqueue(queue, item) == xQueueSendToFront(queue, item)

\* butt_in(): the block time handed to xQueueSendToFront
butt_in_wait == ticks_to_wait

\* the block time of the call the producer is in
prod_wait == IF prod_op = "put" THEN put_wait ELSE butt_in_wait

\* a look_at() that calls xQueueReceive, which removes the item
look_at_remove(queue) == Tail(queue)

\* look_at(): xQueuePeek copies the head item and leaves it in the queue
look_at_leave(queue) == queue

\* get(), look_at(): the block time handed to xQueueReceive / xQueuePeek
get_wait == portMAX_DELAY

\* a recv_item that is value-initialised (dataType recv_item = dataType ())
recv_item_zeroed == {DefaultT}

\* get(), look_at(): `dataType recv_item;` is not initialised, so before the
\* kernel call writes it, it holds whatever the stack held
recv_item_decl == {DefaultT} \cup Items

num_items_in == uxQueueMessagesWaiting(q)

\* history kept when an item enters the queue
EnqueueHistory(x) ==
    /\ accepted' = Append(accepted, x)
    /\ IF q = <<>>
         THEN runPuts' = <<x>> /\ runGets' = <<>> /\ runOK' = TRUE
         ELSE IF runOK /\ runGets = <<>>
                THEN runPuts' = Append(runPuts, x) /\ UNCHANGED <<runGets, runOK>>
                ELSE runPuts' = <<>> /\ runGets' = <<>> /\ runOK' = FALSE
    /\ fi_stage' = 1
    /\ fi_a' = x
    /\ fi_b' = DefaultT
    /\ fi_gets' = <<>>
    /\ fi_len' = Len(q)
    /\ UNCHANGED peeked

\* history kept when butt_in() puts an item at the head of the queue
FrontHistory(x) ==
    /\ accepted' = Append(accepted, x)
    /\ runPuts' = <<>> /\ runGets' = <<>> /\ runOK' = FALSE
    /\ IF fi_stage = 1
         THEN fi_stage' = 2 /\ fi_b' = x /\ UNCHANGED <<fi_a, fi_gets, fi_len>>
         ELSE /\ fi_stage' = 0 /\ fi_a' = DefaultT /\ fi_b' = DefaultT
              /\ fi_gets' = <<>> /\ fi_len' = 0
    /\ UNCHANGED peeked

\* history kept when get() takes an item out of the queue
DequeueHistory(x) ==
    /\ received' = Append(received, x)
    /\ IF runOK THEN runGets' = Append(runGets, x) ELSE UNCHANGED runGets
    /\ UNCHANGED <<runPuts, runOK>>
    /\ IF fi_stage = 2
         THEN /\ fi_gets' = Append(fi_gets, x)
              /\ fi_stage' = IF Len(fi_gets) = 1 THEN 3 ELSE 2
              /\ UNCHANGED <<fi_a, fi_b, fi_len>>
         ELSE /\ fi_stage' = 0 /\ fi_a' = DefaultT /\ fi_b' = DefaultT
              /\ fi_gets' = <<>> /\ fi_len' = 0
    /\ UNCHANGED peeked

qProdUnchanged == UNCHANGED <<prod_pc, prod_op, prod_item, prod_waited, put_result>>
qConsUnchanged == UNCHANGED <<cons_pc, cons_op, cons_waited, recv_item, got_item>>
qRunUnchanged == UNCHANGED <<accepted, received, runPuts, runGets, runOK,
                             fi_stage, fi_a, fi_b, fi_gets, fi_len>>
qHistUnchanged == qRunUnchanged /\ UNCHANGED peeked

\* bool put (const dataType& item): the call, up to the point where the
\* kernel stores the item, refuses it, or blocks the caller
PutCall(x) ==
    /\ prod_pc = "idle"
    /\ Len(accepted) < MaxPuts
    /\ prod_op' = "put"
    /\ prod_item' = x
    /\ prod_waited' = 0
    /\ IF ~QueueIsFull(q)
         THEN /\ q' = put_enqueue(q, x)
              /\ put_result' = TRUE
              /\ prod_pc' = "done"
              /\ EnqueueHistory(x)
              /\ UNCHANGED received
         ELSE /\ IF put_wait = 0
                   THEN put_result' = FALSE /\ prod_pc' = "done"
                   ELSE put_result' = put_result /\ prod_pc' = "blocked"
              /\ UNCHANGED q
              /\ qHistUnchanged
    /\ UNCHANGED ticks_to_wait
    /\ qConsUnchanged
    /\ qOthers

\* bool butt_in (const dataType& item): as put(), with xQueueSendToFront
ButtInCall(x) ==
    /\ prod_pc = "idle"
    /\ Len(accepted) < MaxPuts
    /\ prod_op' = "butt_in"
    /\ prod_item' = x
    /\ prod_waited' = 0
    /\ IF ~QueueIsFull(q)
         THEN /\ q' = butt_in_enqueue(q, x)
              /\ put_result' = TRUE
              /\ prod_pc' = "done"
              /\ FrontHistory(x)
              /\ UNCHANGED received
         ELSE /\ IF butt_in_wait = 0
                   THEN put_result' = FALSE /\ prod_pc' = "done"
                   ELSE put_result' = put_result /\ prod_pc' = "blocked"
              /\ UNCHANGED q
              /\ qHistUnchanged
    /\ UNCHANGED ticks_to_wait
    /\ qConsUnchanged
    /\ qOthers

\* the kernel wakes the blocked put() / butt_in() because a slot is free
PutWake ==
    /\ prod_pc = "blocked"
    /\ ~QueueIsFull(q)
    /\ IF prod_op = "put"
         THEN q' = put_enqueue(q, prod_item) /\ EnqueueHistory(prod_item)
         ELSE q' = butt_in_enqueue(q, prod_item) /\ FrontHistory(prod_item)
    /\ put_result' = TRUE
    /\ prod_pc' = "done"
    /\ UNCHANGED <<received, ticks_to_wait, prod_op, prod_item, prod_waited>>
    /\ qConsUnchanged
    /\ qOthers

\* the kernel wakes the blocked put() because its block time has elapsed
PutTimeout ==
    /\ prod_pc = "blocked"
    /\ QueueIsFull(q)
    /\ prod_waited >= prod_wait
    /\ put_result' = FALSE
    /\ prod_pc' = "done"
    /\ UNCHANGED <<q, ticks_to_wait, prod_op, prod_item, prod_waited>>
    /\ qConsUnchanged
    /\ qHistUnchanged
    /\ qOthers

\* put() returns to the producer task; the frame of the call is gone
PutReturn ==
    /\ prod_pc = "done"
    /\ prod_pc' = "idle"
    /\ prod_item' = DefaultT
    /\ prod_waited' = 0
    /\ put_result' = TRUE
    /\ prod_op' = "put"
    /\ UNCHANGED <<q, ticks_to_wait>>
    /\ qConsUnchanged
    /\ qHistUnchanged
    /\ qOthers

\* the kernel call of get() (xQueueReceive) or look_at() (xQueuePeek) finds
\* an item and copies it into recv_item
TakeItem ==
    /\ recv_item' = Head(q)
    /\ got_item' = TRUE
    /\ cons_pc' = "done"

\* dataType get (void): the call, up to the point where the kernel hands
\* over an item or blocks the caller
GetCall ==
    /\ cons_pc = "idle"
    /\ cons_op' = "get"
    /\ cons_waited' = 0
    /\ IF q # <<>>
         THEN /\ TakeItem
              /\ q' = Tail(q)
              /\ DequeueHistory(Head(q))
              /\ UNCHANGED accepted
         ELSE /\ recv_item' \in recv_item_decl
              /\ got_item' = FALSE
              /\ cons_pc' = IF get_wait = 0 THEN "done" ELSE "blocked"
              /\ UNCHANGED q
              /\ qHistUnchanged
    /\ UNCHANGED ticks_to_wait
    /\ qProdUnchanged
    /\ qOthers

\* dataType look_at (void): as get(), but the item stays in the queue
LookAtCall ==
    /\ cons_pc = "idle"
    /\ cons_op' = "look_at"
    /\ cons_waited' = 0
    /\ IF q # <<>>
         THEN /\ TakeItem
              /\ q' = look_at_leave(q)
              /\ peeked' = Head(q)
         ELSE /\ recv_item' \in recv_item_decl
              /\ got_item' = FALSE
              /\ cons_pc' = IF get_wait = 0 THEN "done" ELSE "blocked"
              /\ UNCHANGED <<q, peeked>>
    /\ UNCHANGED ticks_to_wait
    /\ qProdUnchanged
    /\ qRunUnchanged
    /\ qOthers

\* the kernel wakes the blocked get() / look_at() because an item arrived
ConsWake ==
    /\ cons_pc = "blocked"
    /\ q # <<>>
    /\ TakeItem
    /\ IF cons_op = "get"
         THEN q' = Tail(q) /\ DequeueHistory(Head(q)) /\ UNCHANGED accepted
         ELSE q' = look_at_leave(q) /\ peeked' = Head(q) /\ qRunUnchanged
    /\ UNCHANGED <<ticks_to_wait, cons_op, cons_waited>>
    /\ qProdUnchanged
    /\ qOthers

\* the kernel wakes the blocked get() / look_at() because its block time
\* has elapsed; recv_item is left as it was declared
ConsTimeout ==
    /\ cons_pc = "blocked"
    /\ q = <<>>
    /\ cons_waited >= get_wait
    /\ cons_pc' = "done"
    /\ UNCHANGED <<q, ticks_to_wait, cons_op, cons_waited, recv_item, got_item>>
    /\ qProdUnchanged
    /\ qHistUnchanged
    /\ qOthers

\* get() / look_at() returns recv_item to the consumer task; the frame of
\* the call is gone
ConsReturn ==
    /\ cons_pc = "done"
    /\ cons_pc' = "idle"
    /\ cons_op' = "get"
    /\ cons_waited' = 0
    /\ recv_item' = DefaultT
    /\ got_item' = FALSE
    /\ peeked' = IF cons_op = "get" THEN DefaultT ELSE peeked
    /\ UNCHANGED <<q, ticks_to_wait>>
    /\ qProdUnchanged
    /\ qRunUnchanged
    /\ qOthers

\* the kernel tick: every blocked call has waited one tick more; a call
\* whose block time has elapsed is woken before the next tick
QueueTick ==
    /\ prod_pc = "blocked" \/ cons_pc = "blocked"
    /\ prod_pc = "blocked" => prod_waited < prod_wait
    /\ cons_pc = "blocked" => cons_waited < get_wait
    /\ prod_waited' = IF prod_pc = "blocked" THEN prod_waited + 1 ELSE prod_waited
    /\ cons_waited' = IF cons_pc = "blocked" THEN cons_waited + 1 ELSE cons_waited
    /\ UNCHANGED <<q, ticks_to_wait, prod_pc, prod_op, prod_item, put_result,
                   cons_pc, cons_op, recv_item, got_item>>
    /\ qHistUnchanged
    /\ qOthers

\* TaskQueue (queue_size, p_name, p_ser_dev, wait_time)
InitQueue ==
    /\ q = <<>>
    /\ ticks_to_wait \in (0..MaxWait) \cup {portMAX_DELAY}
    /\ prod_pc = "idle"
    /\ prod_op = "put"
    /\ prod_item = DefaultT
    /\ prod_waited = 0
    /\ put_result = TRUE
    /\ cons_pc = "idle"
    /\ cons_op = "get"
    /\ cons_waited = 0
    /\ recv_item = DefaultT
    /\ got_item = FALSE
    /\ accepted = <<>>
    /\ received = <<>>
    /\ runPuts = <<>>
    /\ runGets = <<>>
    /\ runOK = TRUE
    /\ peeked = DefaultT
    /\ fi_stage = 0
    /\ fi_a = DefaultT
    /\ fi_b = DefaultT
    /\ fi_gets = <<>>
    /\ fi_len = 0

(***************************************************************************)
(* TaskShare<uint32_t>, on an 8-bit CPU: the_data is moved a byte at a     *)
(* time, and a task switch can happen between any two instructions that    *)
(* run with interrupts enabled.                                            *)
(***************************************************************************)
\* 32-bit values are held as their four bytes, low byte first
\* 0x12345678
V12345678 == <<120, 86, 52, 18>>

\* 0x87654321
V87654321 == <<33, 67, 101, 135>>

ZeroWord == <<0, 0, 0, 0>>

\* the two values task_source writes (task_source.cpp:77, 82)
ShareValues == {V12345678, V87654321}

\* what the heap may hold where `new TaskShare` puts the_data, which the
\* constructor does not initialise: zero, an old value, or anything else
ShareGarbage == {ZeroWord, V12345678, <<33, 67, 52, 18>>}

ShareReaders == {"sink", "reader2"}

ShareWriter == "source"

\* byte i (0 = low) of a 32-bit value
Byte(v, i) == v[i + 1]

\* a put() that stores only the low 16 bits of new_data
put_byte_truncated(v, i) == IF i < 2 THEN Byte(v, i) ELSE 0

\* put(): the byte stored into byte i of the_data by `the_data = new_data`
put_byte(v, i) == Byte(v, i)

\* a put() that does not mask interrupts, as ISR_put() does not
put_unprotected(t) == "none"

\* put(): portENTER_CRITICAL () masks interrupts for the calling task
put_enter_critical(t) == t

\* a task runs only while no other task has interrupts masked
CanRun(t) == sh_crit \in {"none", t}

shWriterUnchanged == UNCHANGED <<wr_pc, wr_val, wr_idx>>
shReaderUnchanged == UNCHANGED <<rd_pc, rd_idx, temporary_copy, rd_result, rd_done>>
shHistUnchanged == UNCHANGED <<puts_done, last_put, prev_put, put_values>>

\* void put (DataType new_data): the call
SharePutCall(v) ==
    /\ wr_pc = "idle"
    /\ CanRun(ShareWriter)
    /\ wr_pc' = "enter"
    /\ wr_val' = v
    /\ put_values' = put_values \cup {v}
    /\ rd_after' = [r \in ShareReaders |->
                      IF rd_pc[r] \in {"enter", "copy"} THEN FALSE ELSE rd_after[r]]
    /\ UNCHANGED <<the_data, sh_crit, wr_idx, rd_expect, puts_done, last_put, prev_put>>
    /\ shReaderUnchanged
    /\ sOthers

\* put(): portENTER_CRITICAL ()
SharePutEnter ==
    /\ wr_pc = "enter"
    /\ CanRun(ShareWriter)
    /\ sh_crit' = put_enter_critical(ShareWriter)
    /\ wr_pc' = "copy"
    /\ wr_idx' = 0
    /\ UNCHANGED <<the_data, wr_val, rd_after, rd_expect>>
    /\ shReaderUnchanged
    /\ shHistUnchanged
    /\ sOthers

\* put(): the_data = new_data, one byte store
SharePutStore ==
    /\ wr_pc = "copy"
    /\ wr_idx < 4
    /\ CanRun(ShareWriter)
    /\ the_data' = [the_data EXCEPT ![wr_idx + 1] = put_byte(wr_val, wr_idx)]
    /\ wr_idx' = wr_idx + 1
    /\ UNCHANGED <<sh_crit, wr_pc, wr_val, rd_after, rd_expect>>
    /\ shReaderUnchanged
    /\ shHistUnchanged
    /\ sOthers

\* put(): portEXIT_CRITICAL () and return
SharePutExit ==
    /\ wr_pc = "copy"
    /\ wr_idx = 4
    /\ CanRun(ShareWriter)
    /\ sh_crit' = "none"
    /\ wr_pc' = "idle"
    /\ puts_done' = IF puts_done < 2 THEN puts_done + 1 ELSE 2
    /\ prev_put' = last_put
    /\ last_put' = wr_val
    /\ UNCHANGED <<the_data, wr_val, wr_idx, rd_after, rd_expect, put_values>>
    /\ shReaderUnchanged
    /\ sOthers

\* task_sink::run: delay (10) before the loop; the source task, which is
\* ready at the same priority, has run its loop body at least once by then
ShareDelayDone(r) ==
    /\ rd_pc[r] = "delay"
    /\ CanRun(r)
    /\ puts_done >= 1
    /\ rd_pc' = [rd_pc EXCEPT ![r] = "idle"]
    /\ UNCHANGED <<the_data, sh_crit, rd_idx, temporary_copy, rd_result, rd_done,
                   rd_after, rd_expect>>
    /\ shWriterUnchanged
    /\ shHistUnchanged
    /\ sOthers

\* DataType get (void): the call
ShareGetCall(r) ==
    /\ rd_pc[r] = "idle"
    /\ CanRun(r)
    /\ rd_pc' = [rd_pc EXCEPT ![r] = "enter"]
    /\ rd_done' = [rd_done EXCEPT ![r] = FALSE]
    /\ rd_after' = [rd_after EXCEPT ![r] = (puts_done >= 2 /\ wr_pc = "idle")]
    /\ rd_expect' = [rd_expect EXCEPT ![r] = last_put]
    /\ UNCHANGED <<the_data, sh_crit, rd_idx, temporary_copy, rd_result>>
    /\ shWriterUnchanged
    /\ shHistUnchanged
    /\ sOthers

\* get(): portENTER_CRITICAL ()
ShareGetEnter(r) ==
    /\ rd_pc[r] = "enter"
    /\ CanRun(r)
    /\ sh_crit' = r
    /\ rd_pc' = [rd_pc EXCEPT ![r] = "copy"]
    /\ rd_idx' = [rd_idx EXCEPT ![r] = 0]
    /\ UNCHANGED <<the_data, temporary_copy, rd_result, rd_done, rd_after, rd_expect>>
    /\ shWriterUnchanged
    /\ shHistUnchanged
    /\ sOthers

\* get(): temporary_copy = the_data, one byte load and store
ShareGetLoad(r) ==
    /\ rd_pc[r] = "copy"
    /\ rd_idx[r] < 4
    /\ CanRun(r)
    /\ temporary_copy' = [temporary_copy EXCEPT ![r][rd_idx[r] + 1] = the_data[rd_idx[r] + 1]]
    /\ rd_idx' = [rd_idx EXCEPT ![r] = rd_idx[r] + 1]
    /\ UNCHANGED <<the_data, sh_crit, rd_pc, rd_result, rd_done, rd_after, rd_expect>>
    /\ shWriterUnchanged
    /\ shHistUnchanged
    /\ sOthers

\* get(): portEXIT_CRITICAL () and return (temporary_copy)
ShareGetExit(r) ==
    /\ rd_pc[r] = "copy"
    /\ rd_idx[r] = 4
    /\ CanRun(r)
    /\ sh_crit' = "none"
    /\ rd_pc' = [rd_pc EXCEPT ![r] = "idle"]
    /\ rd_result' = [rd_result EXCEPT ![r] = temporary_copy[r]]
    /\ rd_done' = [rd_done EXCEPT ![r] = TRUE]
    /\ UNCHANGED <<the_data, rd_idx, temporary_copy, rd_after, rd_expect>>
    /\ shWriterUnchanged
    /\ shHistUnchanged
    /\ sOthers

\* new TaskShare<uint32_t> ("Test Share"): the_data is not initialised
InitShare ==
    /\ the_data \in ShareGarbage
    /\ sh_crit = "none"
    /\ wr_pc = "idle"
    /\ wr_val = ZeroWord
    /\ wr_idx = 0
    /\ rd_pc = [r \in ShareReaders |-> "delay"]
    /\ rd_idx = [r \in ShareReaders |-> 0]
    /\ temporary_copy = [r \in ShareReaders |-> ZeroWord]
    /\ rd_result = [r \in ShareReaders |-> ZeroWord]
    /\ rd_done = [r \in ShareReaders |-> FALSE]
    /\ rd_after = [r \in ShareReaders |-> FALSE]
    /\ rd_expect = [r \in ShareReaders |-> ZeroWord]
    /\ puts_done = 0
    /\ last_put = ZeroWord
    /\ prev_put = ZeroWord
    /\ put_values = {}

ShareWriterStep ==
    (\E v \in ShareValues : SharePutCall(v)) \/ SharePutEnter \/ SharePutStore \/ SharePutExit

ShareReaderStep ==
    \E r \in ShareReaders :
        ShareDelayDone(r) \/ ShareGetCall(r) \/ ShareGetEnter(r) \/ ShareGetLoad(r) \/ ShareGetExit(r)

NextShare == ShareWriterStep \/ ShareReaderStep

(***************************************************************************)
(* rs232: the receive buffer of port 0, filled by the receive ISR and      *)
(* emptied by getchar().  The ISR runs to completion; getchar() runs with  *)
(* interrupts enabled, so the ISR can run between any two of its steps.    *)
(* The k-th byte the UART receives is the number k.                        *)
(***************************************************************************)
\* an index advanced with the comparison `>` in place of `>=`
ser_advance_late(i) == IF i + 1 > RSINT_BUF_SIZE THEN 0 ELSE i + 1

\* if (++index >= RSINT_BUF_SIZE) index = 0;
ser_advance(i) == IF i + 1 >= RSINT_BUF_SIZE THEN 0 ELSE i + 1

\* the number of bytes between the read index and the write index
SerUnread == (rcv0_write_index - rcv0_read_index + RSINT_BUF_SIZE) % RSINT_BUF_SIZE

serTaskUnchanged == UNCHANGED <<g_pc, g_reg, recv_char, chk_result, got, first_get_at>>

\* ISR (RSI_CHAR_RECV_INT_0)
SerReceiveISR ==
    /\ arrivals < MaxArrivals
    /\ arrivals' = arrivals + 1
    /\ rcv0_buffer' = [rcv0_buffer EXCEPT ![rcv0_write_index] = arrivals + 1]
    /\ rcv0_write_index' = ser_advance(rcv0_write_index)
    /\ rcv0_read_index' = IF rcv0_write_index' = rcv0_read_index
                            THEN ser_advance(rcv0_read_index)
                            ELSE rcv0_read_index
    /\ serTaskUnchanged
    /\ rOthers

\* bool rs232::check_for_char (void)
SerCheckForChar ==
    /\ g_pc = "idle"
    /\ chk_result' = (rcv0_read_index # rcv0_write_index)
    /\ chk_result' # chk_result
    /\ UNCHANGED <<rcv0_buffer, rcv0_read_index, rcv0_write_index, arrivals,
                   g_pc, g_reg, recv_char, got, first_get_at>>
    /\ rOthers

\* char rs232::getchar (void): the call
SerGetcharCall ==
    /\ g_pc = "idle"
    /\ g_pc' = "wait"
    /\ first_get_at' = IF first_get_at = -1 THEN arrivals ELSE first_get_at
    /\ UNCHANGED <<rcv0_buffer, rcv0_read_index, rcv0_write_index, arrivals,
                   g_reg, recv_char, chk_result, got>>
    /\ rOthers

\* getchar(): while (rcv0_read_index == rcv0_write_index); leaves the loop
SerGetcharWait ==
    /\ g_pc = "wait"
    /\ rcv0_read_index # rcv0_write_index
    /\ g_pc' = "read"
    /\ UNCHANGED <<rcv0_buffer, rcv0_read_index, rcv0_write_index, arrivals,
                   g_reg, recv_char, chk_result, got, first_get_at>>
    /\ rOthers

\* getchar(): recv_char = rcv0_buffer[rcv0_read_index];
SerGetcharRead ==
    /\ g_pc = "read"
    /\ recv_char' = rcv0_buffer[rcv0_read_index]
    /\ g_pc' = "inc_load"
    /\ UNCHANGED <<rcv0_buffer, rcv0_read_index, rcv0_write_index, arrivals,
                   g_reg, chk_result, got, first_get_at>>
    /\ rOthers

\* getchar(): ++rcv0_read_index, the load
SerGetcharIncLoad ==
    /\ g_pc = "inc_load"
    /\ g_reg' = rcv0_read_index
    /\ g_pc' = "inc_store"
    /\ UNCHANGED <<rcv0_buffer, rcv0_read_index, rcv0_write_index, arrivals,
                   recv_char, chk_result, got, first_get_at>>
    /\ rOthers

\* getchar(): ++rcv0_read_index, the store of the incremented value
SerGetcharIncStore ==
    /\ g_pc = "inc_store"
    /\ g_reg' = g_reg + 1
    /\ rcv0_read_index' = g_reg + 1
    /\ g_pc' = "wrap"
    /\ UNCHANGED <<rcv0_buffer, rcv0_write_index, arrivals,
                   recv_char, chk_result, got, first_get_at>>
    /\ rOthers

\* getchar(): if (... >= RSINT_BUF_SIZE) rcv0_read_index = 0; return (recv_char);
SerGetcharWrap ==
    /\ g_pc = "wrap"
    /\ rcv0_read_index' = IF g_reg >= RSINT_BUF_SIZE THEN 0 ELSE rcv0_read_index
    /\ got' = Append(got, recv_char)
    /\ g_pc' = "idle"
    /\ UNCHANGED <<rcv0_buffer, rcv0_write_index, arrivals,
                   g_reg, recv_char, chk_result, first_get_at>>
    /\ rOthers

\* rs232::rs232 (baud_rate, 0): new uint8_t[RSINT_BUF_SIZE], indices reset
InitSerial ==
    /\ rcv0_buffer = [i \in 0..(RSINT_BUF_SIZE - 1) |-> 0]
    /\ rcv0_read_index = 0
    /\ rcv0_write_index = 0
    /\ arrivals = 0
    /\ g_pc = "idle"
    /\ g_reg = 0
    /\ recv_char = 0
    /\ chk_result = FALSE
    /\ got = <<>>
    /\ first_get_at = -1

SerTaskStep ==
    \/ SerCheckForChar \/ SerGetcharCall \/ SerGetcharWait \/ SerGetcharRead
    \/ SerGetcharIncLoad \/ SerGetcharIncStore \/ SerGetcharWrap

NextSerial == SerReceiveISR \/ SerTaskStep


(***************************************************************************)
(* TaskShare<int8_t>: operators ++ and -- (lib/frtcpp/taskshare.h)         *)
(***************************************************************************)
MaxOps == 3

CtrTasks == {"user", "other"}
CtrOps == {"pre_inc", "post_inc", "pre_dec", "post_dec"}
CtrPostfix == {"post_inc", "post_dec"}
CtrIncrements == {"pre_inc", "post_inc"}

\* the values the counter may hold when the first operator is called
CounterStart == {-128, 0, 127}

\* conversion of an int to int8_t (avr-gcc: modulo 2^8)
Int8(x) == ((x + 128) % 256) - 128

\* an operator that changes the_data without masking interrupts
incr_unprotected(t) == "none"

\* operator ++ / --: portENTER_CRITICAL () masks interrupts for the caller
incr_enter_critical(t) == t

\* the_data++ / the_data--: the value written back
incr_value(op, reg) == IF op \in CtrIncrements THEN Int8(reg + 1) ELSE Int8(reg - 1)

cHistUnchanged == UNCHANGED <<c_init, c_incs, c_decs, c_contended>>

\* operator ++ (void), ++ (int), -- (void), -- (int): the call; the postfix
\* forms copy the_data into result before they mask interrupts
CtrCall(t, op) ==
    /\ c_pc[t] = "idle"
    /\ CanRun(t)
    /\ c_calls < MaxOps
    /\ c_calls' = c_calls + 1
    /\ c_op' = [c_op EXCEPT ![t] = op]
    /\ c_result' = [c_result EXCEPT ![t] = IF op \in CtrPostfix
                                            THEN counter_data ELSE @]
    /\ c_pc' = [c_pc EXCEPT ![t] = "enter"]
    /\ UNCHANGED <<counter_data, c_reg, c_after, sh_crit>>
    /\ cHistUnchanged
    /\ cOthers

\* portENTER_CRITICAL ()
CtrEnter(t) ==
    /\ c_pc[t] = "enter"
    /\ CanRun(t)
    /\ sh_crit' = incr_enter_critical(t)
    /\ c_pc' = [c_pc EXCEPT ![t] = "load"]
    /\ c_contended' = (c_contended \/ \E u \in CtrTasks \ {t} : c_pc[u] = "enter")
    /\ UNCHANGED <<counter_data, c_op, c_reg, c_result, c_after, c_init,
                   c_incs, c_decs, c_calls>>
    /\ cOthers

\* the_data++ / the_data--: the load of the_data into a register
CtrLoad(t) ==
    /\ c_pc[t] = "load"
    /\ CanRun(t)
    /\ c_reg' = [c_reg EXCEPT ![t] = counter_data]
    /\ c_pc' = [c_pc EXCEPT ![t] = "store"]
    /\ UNCHANGED <<counter_data, c_op, c_result, c_after, c_calls, sh_crit>>
    /\ cHistUnchanged
    /\ cOthers

\* the_data++ / the_data--: the store of the changed register
CtrStore(t) ==
    /\ c_pc[t] = "store"
    /\ CanRun(t)
    /\ counter_data' = incr_value(c_op[t], c_reg[t])
    /\ c_after' = [c_after EXCEPT ![t] = incr_value(c_op[t], c_reg[t])]
    /\ c_incs' = IF c_op[t] \in CtrIncrements THEN c_incs + 1 ELSE c_incs
    /\ c_decs' = IF c_op[t] \in CtrIncrements THEN c_decs ELSE c_decs + 1
    /\ c_pc' = [c_pc EXCEPT ![t] = "exit"]
    /\ UNCHANGED <<c_op, c_reg, c_result, c_init, c_calls, c_contended, sh_crit>>
    /\ cOthers

\* portEXIT_CRITICAL ()
CtrExit(t) ==
    /\ c_pc[t] = "exit"
    /\ CanRun(t)
    /\ sh_crit' = "none"
    /\ c_pc' = [c_pc EXCEPT ![t] = "return"]
    /\ UNCHANGED <<counter_data, c_op, c_reg, c_result, c_after, c_calls>>
    /\ cHistUnchanged
    /\ cOthers

\* return (the_data) of the prefix forms, a reference the caller reads
\* after the critical section; return (result) of the postfix forms
CtrReturn(t) ==
    /\ c_pc[t] = "return"
    /\ CanRun(t)
    /\ c_result' = [c_result EXCEPT ![t] = IF c_op[t] \in CtrPostfix
                                            THEN @ ELSE counter_data]
    /\ c_pc' = [c_pc EXCEPT ![t] = "done"]
    /\ UNCHANGED <<counter_data, c_op, c_reg, c_after, c_calls, sh_crit>>
    /\ cHistUnchanged
    /\ cOthers

\* the caller goes on; the operator's locals are gone
CtrDone(t) ==
    /\ c_pc[t] = "done"
    /\ CanRun(t)
    /\ c_pc' = [c_pc EXCEPT ![t] = "idle"]
    /\ c_op' = [c_op EXCEPT ![t] = "pre_inc"]
    /\ c_reg' = [c_reg EXCEPT ![t] = 0]
    /\ c_result' = [c_result EXCEPT ![t] = 0]
    /\ c_after' = [c_after EXCEPT ![t] = 0]
    /\ UNCHANGED <<counter_data, c_calls, sh_crit>>
    /\ cHistUnchanged
    /\ cOthers

InitCounter ==
    /\ counter_data \in CounterStart
    /\ c_init = counter_data
    /\ c_pc = [t \in CtrTasks |-> "idle"]
    /\ c_op = [t \in CtrTasks |-> "pre_inc"]
    /\ c_reg = [t \in CtrTasks |-> 0]
    /\ c_result = [t \in CtrTasks |-> 0]
    /\ c_after = [t \in CtrTasks |-> 0]
    /\ c_incs = 0
    /\ c_decs = 0
    /\ c_calls = 0
    /\ c_contended = FALSE

NextCounter ==
    \E t \in CtrTasks :
        \/ \E op \in CtrOps : CtrCall(t, op)
        \/ CtrEnter(t)
        \/ CtrLoad(t)
        \/ CtrStore(t)
        \/ CtrExit(t)
        \/ CtrReturn(t)
        \/ CtrDone(t)


(***************************************************************************)
(* time_stamp (time_stamp.h, lib/frtcpp/time_stamp_*.cpp)                  *)
(***************************************************************************)
\* hardware timer counts per RTOS tick; F_CPU / (1000 * 8) in the build
TMR_MAX_CT == 3
\* the largest tick count given to an operator
MaxTick == 2

\* HW_CTR_TYPE is uint16_t
HW_CTR_TYPE(x) == x % 65536

ZeroStamp == [tick_count |-> 0, hardware_count |-> 0]

\* valid time stamps: hardware_count < TMR_MAX_CT
Stamps == [tick_count : 0..MaxTick, hardware_count : 0..(TMR_MAX_CT - 1)]

\* a test that compares the tick counts only
ts_greater_ticks_only(a, b) == a.tick_count > b.tick_count

\* bool operator > (const time_stamp& other)
ts_greater(a, b) ==
    IF a.tick_count > b.tick_count THEN TRUE
    ELSE IF a.tick_count < b.tick_count THEN FALSE
    ELSE a.hardware_count > b.hardware_count

\* bool operator == (const time_stamp& other)
ts_equal(a, b) ==
    (b.hardware_count = a.hardware_count) /\ (b.tick_count = a.tick_count)

\* bool operator != (const time_stamp& other)
ts_not_equal(a, b) ==
    (b.hardware_count # a.hardware_count) \/ (b.tick_count # a.tick_count)

\* operators >=, <= and < are declared in time_stamp.h and defined in no
\* source file; they are taken as the order their names stand for
ts_greater_eq(a, b) ==
    \/ a.tick_count > b.tick_count
    \/ a.tick_count = b.tick_count /\ a.hardware_count >= b.hardware_count

ts_less_eq(a, b) ==
    \/ a.tick_count < b.tick_count
    \/ a.tick_count = b.tick_count /\ a.hardware_count <= b.hardware_count

ts_less(a, b) ==
    \/ a.tick_count < b.tick_count
    \/ a.tick_count = b.tick_count /\ a.hardware_count < b.hardware_count

\* a carry test that lets a hardware count of TMR_MAX_CT through
plus_carry_late(hw) == hw > TMR_MAX_CT

\* operator +: the test for a carry into the tick count
plus_carry(hw) == hw >= TMR_MAX_CT

\* time_stamp operator + (const time_stamp& addend); tick counts stay far
\* below 2^32 for the operands used here
ts_plus(a, b) ==
    LET hw == HW_CTR_TYPE(a.hardware_count + b.hardware_count)
        tk == a.tick_count + b.tick_count
    IN  IF plus_carry(hw)
          THEN [tick_count |-> tk + 1,
                hardware_count |-> HW_CTR_TYPE(hw - TMR_MAX_CT)]
          ELSE [tick_count |-> tk, hardware_count |-> hw]

\* operator -: the test for a borrow from the tick count
minus_borrow(hw) == hw >= TMR_MAX_CT

\* time_stamp operator - (const time_stamp& previous): the value returned;
\* the borrow is taken from the tick count of *this, not of ret_stamp
ts_minus(a, b) ==
    LET hw == HW_CTR_TYPE(a.hardware_count - b.hardware_count)
        tk == a.tick_count - b.tick_count
    IN  IF minus_borrow(hw)
          THEN [tick_count |-> tk, hardware_count |-> HW_CTR_TYPE(hw + TMR_MAX_CT)]
          ELSE [tick_count |-> tk, hardware_count |-> hw]

\* operator -: what it leaves in *this
ts_minus_this(a, b) ==
    IF minus_borrow(HW_CTR_TYPE(a.hardware_count - b.hardware_count))
      THEN [a EXCEPT !.tick_count = @ - 1]
      ELSE a

NoCmp == [gt |-> FALSE, eq |-> FALSE, ne |-> FALSE,
          ge |-> FALSE, le |-> FALSE, lt |-> FALSE]

\* the six comparison operators applied to (t1, t2)
TsCompare ==
    /\ ts_pc = "start"
    /\ ts_cmp' = [gt |-> ts_greater(ts_t1, ts_t2),
                  eq |-> ts_equal(ts_t1, ts_t2),
                  ne |-> ts_not_equal(ts_t1, ts_t2),
                  ge |-> ts_greater_eq(ts_t1, ts_t2),
                  le |-> ts_less_eq(ts_t1, ts_t2),
                  lt |-> ts_less(ts_t1, ts_t2)]
    /\ ts_pc' = "compared"
    /\ UNCHANGED <<ts_t1, ts_t2, ts_orig1, ts_add, ts_diff, ts_sum, ts_same>>
    /\ tOthers

\* t1 + t2
TsAdd ==
    /\ ts_pc = "compared"
    /\ ts_add' = ts_plus(ts_t1, ts_t2)
    /\ ts_pc' = "added"
    /\ UNCHANGED <<ts_t1, ts_t2, ts_orig1, ts_cmp, ts_diff, ts_sum, ts_same>>
    /\ tOthers

\* t1 - t2, for t1 >= t2
TsSubtract ==
    /\ ts_pc = "added"
    /\ ts_greater(ts_t1, ts_t2) \/ ts_equal(ts_t1, ts_t2)
    /\ ts_diff' = ts_minus(ts_t1, ts_t2)
    /\ ts_t1' = ts_minus_this(ts_t1, ts_t2)
    /\ ts_pc' = "subtracted"
    /\ UNCHANGED <<ts_t2, ts_orig1, ts_cmp, ts_add, ts_sum, ts_same>>
    /\ tOthers

\* t2 + (t1 - t2)
TsAddBack ==
    /\ ts_pc = "subtracted"
    /\ ts_sum' = ts_plus(ts_t2, ts_diff)
    /\ ts_pc' = "summed"
    /\ UNCHANGED <<ts_t1, ts_t2, ts_orig1, ts_cmp, ts_add, ts_diff, ts_same>>
    /\ tOthers

\* t2 + (t1 - t2) == t1
TsTestEqual ==
    /\ ts_pc = "summed"
    /\ ts_same' = ts_equal(ts_sum, ts_t1)
    /\ ts_pc' = "done"
    /\ UNCHANGED <<ts_t1, ts_t2, ts_orig1, ts_cmp, ts_add, ts_diff, ts_sum>>
    /\ tOthers

InitStamp ==
    /\ ts_t1 \in Stamps
    /\ ts_t2 \in Stamps
    /\ ts_orig1 = ts_t1
    /\ ts_cmp = NoCmp
    /\ ts_add = ZeroStamp
    /\ ts_diff = ZeroStamp
    /\ ts_sum = ZeroStamp
    /\ ts_same = FALSE
    /\ ts_pc = "start"

\* time_stamp (void): both counts zero
StampAtRest == ts_t1 = ZeroStamp /\ ts_t2 = ZeroStamp

NextStamp == TsCompare \/ TsAdd \/ TsSubtract \/ TsAddBack \/ TsTestEqual


(***************************************************************************)
(* time_stamp::set_to_now () and the tick timer                            *)
(* (lib/frtcpp/time_stamp_to_now.cpp, lib/freertos/port.c)                 *)
(***************************************************************************)
\* the number of compare matches followed
MaxMatches == 2

\* an interrupt that is flagged and not masked is served before anything else
InterruptDue == tick_pending /\ sh_crit = "none"

\* the timer hardware counts on, whether interrupts are masked or not; at
\* the compare match it clears itself and flags the tick interrupt
TimerCount ==
    /\ ~InterruptDue
    /\ IF TCNT = TMR_MAX_CT - 1
         THEN /\ ~tick_pending
              /\ matches < MaxMatches
              /\ TCNT' = 0
              /\ tick_pending' = TRUE
              /\ matches' = matches + 1
         ELSE /\ TCNT' = TCNT + 1
              /\ UNCHANGED <<tick_pending, matches>>
    /\ UNCHANGED <<xTickCount, now_pc, now_stamp, matches_at_hw, sh_crit>>
    /\ nOthers

\* ISR (RT_VECT): vPortYieldFromTick () increments the tick count
TickISR ==
    /\ InterruptDue
    /\ xTickCount' = xTickCount + 1
    /\ tick_pending' = FALSE
    /\ UNCHANGED <<TCNT, now_pc, now_stamp, matches, matches_at_hw, sh_crit>>
    /\ nOthers

\* set_to_now (): portENTER_CRITICAL ()
NowEnter ==
    /\ now_pc = "idle"
    /\ ~InterruptDue
    /\ sh_crit = "none"
    /\ sh_crit' = "stamper"
    /\ now_pc' = "read_hw"
    /\ UNCHANGED <<TCNT, xTickCount, tick_pending, now_stamp, matches,
                   matches_at_hw>>
    /\ nOthers

\* set_to_now (): hardware_count = TCNT1
NowReadCount ==
    /\ now_pc = "read_hw"
    /\ now_stamp' = [now_stamp EXCEPT !.hardware_count = TCNT]
    /\ matches_at_hw' = matches
    /\ now_pc' = "read_tick"
    /\ UNCHANGED <<TCNT, xTickCount, tick_pending, matches, sh_crit>>
    /\ nOthers

\* set_to_now (): tick_count = xTaskGetTickCount ()
NowReadTick ==
    /\ now_pc = "read_tick"
    /\ now_stamp' = [now_stamp EXCEPT !.tick_count = xTickCount]
    /\ now_pc' = "exit"
    /\ UNCHANGED <<TCNT, xTickCount, tick_pending, matches, matches_at_hw,
                   sh_crit>>
    /\ nOthers

\* set_to_now (): portEXIT_CRITICAL (); return (*this)
NowExit ==
    /\ now_pc = "exit"
    /\ sh_crit' = "none"
    /\ now_pc' = "done"
    /\ UNCHANGED <<TCNT, xTickCount, tick_pending, now_stamp, matches,
                   matches_at_hw>>
    /\ nOthers

\* the caller has used the time stamp and will set it again
NowAgain ==
    /\ now_pc = "done"
    /\ ~InterruptDue
    /\ now_pc' = "idle"
    /\ now_stamp' = ZeroStamp
    /\ matches_at_hw' = 0
    /\ UNCHANGED <<TCNT, xTickCount, tick_pending, matches, sh_crit>>
    /\ nOthers

InitNow ==
    /\ TCNT = 0
    /\ xTickCount = 0
    /\ tick_pending = FALSE
    /\ now_pc = "idle"
    /\ now_stamp = ZeroStamp
    /\ matches = 0
    /\ matches_at_hw = 0

NextNow ==
    \/ TimerCount \/ TickISR
    \/ NowEnter \/ NowReadCount \/ NowReadTick \/ NowExit \/ NowAgain

(***************************************************************************)
(* TaskBase (lib/frtcpp/taskbase.cpp, taskbase.h)                          *)
(***************************************************************************)
\* the number of loop passes of run () followed
MaxRuns == 3
\* the number of expired delays of a parked task followed
MaxWakes == 2

\* what the memory of a new TaskBase object may hold where handle is
HandleGarbage == {"null", "garbage"}

\* FreeRTOSConfig.h: #define INCLUDE_vTaskDelete 0
INCLUDE_vTaskDelete == 0

\* a wrapper that deletes the task whatever the configuration says
delete_always == TRUE

\* _call_users_run_method: #if (INCLUDE_vTaskDelete == 1) ... vTaskDelete
delete_if_enabled == (INCLUDE_vTaskDelete = 1)

\* the kernel writes the new task's handle only when the task was created
xTaskCreate(old_handle, ok) == IF ok THEN "tcb" ELSE old_handle

\* operator bool () const
operator_bool == (handle # "null")

\* TaskBase::TaskBase: xTaskCreate (..., &handle) and the members set after it
TaskConstruct(ok) ==
    /\ tk_ctor = "allocated"
    /\ handle' = xTaskCreate(handle, ok)
    /\ task_status' = IF ok THEN "pdPASS" ELSE "fail"
    /\ tk_pc' = IF ok THEN "ready" ELSE "none"
    /\ runs' = 0
    /\ tk_ctor' = "constructed"
    /\ UNCHANGED <<tk_delay, tk_valid, tk_parked, tk_wakes, tk_user_late>>
    /\ kOthers

\* some code tests the task object: if (*p_task) ...
TaskTestBool ==
    /\ tk_ctor = "constructed"
    /\ tk_valid' = IF operator_bool THEN "true" ELSE "false"
    /\ tk_valid' # tk_valid
    /\ UNCHANGED <<handle, tk_ctor, task_status, tk_pc, tk_delay, runs,
                   tk_parked, tk_wakes, tk_user_late>>
    /\ kOthers

\* the scheduler starts the task: _call_users_run_method calls run ()
TaskStart ==
    /\ tk_pc = "ready"
    /\ tk_pc' = "run"
    /\ UNCHANGED <<handle, tk_ctor, task_status, tk_delay, runs, tk_valid,
                   tk_parked, tk_wakes, tk_user_late>>
    /\ kOthers

\* one pass through the loop of the user's run ()
TaskUserStep ==
    /\ tk_pc = "run"
    /\ runs < MaxRuns
    /\ runs' = runs + 1
    /\ tk_user_late' = (tk_user_late \/ tk_parked)
    /\ UNCHANGED <<handle, tk_ctor, task_status, tk_pc, tk_delay, tk_valid,
                   tk_parked, tk_wakes>>
    /\ kOthers

\* run () leaves its loop and returns (gear_shifter::run: break)
TaskRunReturns ==
    /\ tk_pc = "run"
    /\ tk_pc' = "returned"
    /\ UNCHANGED <<handle, tk_ctor, task_status, tk_delay, runs, tk_valid,
                   tk_parked, tk_wakes, tk_user_late>>
    /\ kOthers

\* _call_users_run_method: p_task->handle = 0, and vTaskDelete if enabled
TaskClearHandle ==
    /\ tk_pc = "returned"
    /\ handle' = "null"
    /\ tk_pc' = IF delete_if_enabled THEN "deleted" ELSE "park"
    /\ UNCHANGED <<tk_ctor, task_status, tk_delay, runs, tk_valid,
                   tk_parked, tk_wakes, tk_user_late>>
    /\ kOthers

\* _call_users_run_method: for (;;) vTaskDelay (portMAX_DELAY)
TaskDelayCall ==
    /\ tk_pc = "park"
    /\ tk_pc' = "delayed"
    /\ tk_delay' = portMAX_DELAY
    /\ tk_parked' = TRUE
    /\ UNCHANGED <<handle, tk_ctor, task_status, runs, tk_valid, tk_wakes,
                   tk_user_late>>
    /\ kOthers

\* the kernel tick counts the delay down
TaskDelayTick ==
    /\ tk_pc = "delayed"
    /\ tk_delay > 0
    /\ tk_delay' = tk_delay - 1
    /\ UNCHANGED <<handle, tk_ctor, task_status, tk_pc, runs, tk_valid,
                   tk_parked, tk_wakes, tk_user_late>>
    /\ kOthers

\* the delay has expired: the task is made ready and runs the loop again
TaskDelayExpires ==
    /\ tk_pc = "delayed"
    /\ tk_delay = 0
    /\ tk_wakes < MaxWakes
    /\ tk_wakes' = tk_wakes + 1
    /\ tk_pc' = "park"
    /\ UNCHANGED <<handle, tk_ctor, task_status, tk_delay, runs, tk_valid,
                   tk_parked, tk_user_late>>
    /\ kOthers

InitTask ==
    /\ handle \in HandleGarbage
    /\ tk_ctor = "allocated"
    /\ task_status = "none"
    /\ tk_pc = "none"
    /\ tk_delay = 0
    /\ runs = 0
    /\ tk_valid = "untested"
    /\ tk_parked = FALSE
    /\ tk_wakes = 0
    /\ tk_user_late = FALSE

NextTask ==
    \/ \E ok \in BOOLEAN : TaskConstruct(ok)
    \/ TaskTestBool
    \/ TaskStart \/ TaskUserStep \/ TaskRunReturns
    \/ TaskClearHandle \/ TaskDelayCall \/ TaskDelayTick \/ TaskDelayExpires


(***************************************************************************)
(* gear_shifter: a task that moves the gear servo to the desired gear.     *)
(* Another task (the link to the Pi) sets the desired gear and asks for    *)
(* the actual one.                                                         *)
(***************************************************************************)
FIRST_GEAR == 1
SECOND_GEAR == 2
THIRD_GEAR == 3

\* the values another task passes to set_desired_level (): the gears, no
\* gear (0) and gears that do not exist
MaxLevel == 4
Levels == 0..MaxLevel

NoShift == [to |-> 0, state |-> 0]

\* the branch of run ()'s loop body taken in state st with desired gear des:
\* the shift_to_...() it calls and the value it then assigns to state
run_branch(st, des) ==
    IF st = FIRST_GEAR THEN
        IF des = SECOND_GEAR THEN [to |-> SECOND_GEAR, state |-> SECOND_GEAR]
        ELSE IF des = THIRD_GEAR THEN [to |-> THIRD_GEAR, state |-> SECOND_GEAR]
        ELSE NoShift
    ELSE IF st = SECOND_GEAR THEN
        IF des = FIRST_GEAR THEN [to |-> FIRST_GEAR, state |-> FIRST_GEAR]
        ELSE IF des = THIRD_GEAR THEN [to |-> THIRD_GEAR, state |-> THIRD_GEAR]
        ELSE NoShift
    ELSE
        IF des = FIRST_GEAR THEN [to |-> FIRST_GEAR, state |-> FIRST_GEAR]
        ELSE IF des = SECOND_GEAR THEN [to |-> SECOND_GEAR, state |-> SECOND_GEAR]
        ELSE NoShift

\* the last else of the loop body: state is no gear at all
run_breaks(st) == st \notin {FIRST_GEAR, SECOND_GEAR, THIRD_GEAR}

\* set_desired_level () reaching for the state machine of the task
set_desired_level_and_state(in_level) ==
    [desired_gear |-> in_level, state |-> in_level]

\* set_desired_level (in_level): writes the shared desired gear only
set_desired_level(in_level) ==
    [desired_gear |-> in_level, state |-> state]

get_actual_level == state

\* run (): shift_to_first () before the loop
GsRunEnters ==
    /\ gs_pc = "run"
    /\ actual_gear' = FIRST_GEAR
    /\ gs_pc' = "test"
    /\ gs_ctx' = "gear_shifter"
    /\ UNCHANGED <<state, desired_gear, gs_to, gs_next, gs_got, gs_result,
                   gs_actual_then, gs_quiet_then>>
    /\ gOthers

\* if (state != semi_data->desired_gear)
GsTest ==
    /\ gs_pc = "test"
    /\ gs_pc' = IF state # desired_gear THEN "pick" ELSE "test"
    /\ gs_ctx' = "gear_shifter"
    /\ UNCHANGED <<state, desired_gear, actual_gear, gs_to, gs_next, gs_got,
                   gs_result, gs_actual_then, gs_quiet_then>>
    /\ gOthers

\* the nested ifs on state and the desired gear
GsPick ==
    /\ gs_pc = "pick"
    /\ LET b == run_branch(state, desired_gear) IN
         /\ gs_pc' = IF run_breaks(state) THEN "returned"
                     ELSE IF b = NoShift THEN "test" ELSE "shift"
         /\ gs_to' = IF run_breaks(state) THEN 0 ELSE b.to
         /\ gs_next' = IF run_breaks(state) THEN 0 ELSE b.state
    /\ gs_ctx' = "gear_shifter"
    /\ UNCHANGED <<state, desired_gear, actual_gear, gs_got, gs_result,
                   gs_actual_then, gs_quiet_then>>
    /\ gOthers

\* shift_to_first/second/third (): the servo is written and
\* semi_data->actual_gear follows
GsShift ==
    /\ gs_pc = "shift"
    /\ actual_gear' = gs_to
    /\ gs_pc' = "assign"
    /\ gs_ctx' = "gear_shifter"
    /\ UNCHANGED <<state, desired_gear, gs_to, gs_next, gs_got, gs_result,
                   gs_actual_then, gs_quiet_then>>
    /\ gOthers

\* state = ..._GEAR; after the shift
GsAssign ==
    /\ gs_pc = "assign"
    /\ state' = gs_next
    /\ gs_pc' = "test"
    /\ gs_to' = 0
    /\ gs_next' = 0
    /\ gs_ctx' = "gear_shifter"
    /\ UNCHANGED <<desired_gear, actual_gear, gs_got, gs_result,
                   gs_actual_then, gs_quiet_then>>
    /\ gOthers

\* another task calls set_desired_level (in_level)
GsSetDesired(in_level) ==
    /\ desired_gear' = set_desired_level(in_level).desired_gear
    /\ state' = set_desired_level(in_level).state
    /\ gs_ctx' = "other"
    /\ UNCHANGED <<actual_gear, gs_pc, gs_to, gs_next, gs_got, gs_result,
                   gs_actual_then, gs_quiet_then>>
    /\ gOthers

\* another task calls get_actual_level ()
GsGetActual ==
    /\ gs_got' = TRUE
    /\ gs_result' = get_actual_level
    /\ gs_actual_then' = actual_gear
    /\ gs_quiet_then' = (gs_pc # "assign")
    /\ gs_ctx' = "other"
    /\ UNCHANGED <<state, desired_gear, actual_gear, gs_pc, gs_to, gs_next>>
    /\ gOthers

\* the constructor has run in main (): first gear everywhere
InitGear ==
    /\ state = FIRST_GEAR
    /\ desired_gear = FIRST_GEAR
    /\ actual_gear = FIRST_GEAR
    /\ gs_pc = "run"
    /\ gs_to = 0
    /\ gs_next = 0
    /\ gs_ctx = "main"
    /\ gs_got = FALSE
    /\ gs_result = 0
    /\ gs_actual_then = 0
    /\ gs_quiet_then = TRUE

NextGear ==
    \/ GsRunEnters \/ GsTest \/ GsPick \/ GsShift \/ GsAssign
    \/ \E in_level \in Levels : GsSetDesired(in_level)
    \/ GsGetActual


(***************************************************************************)
(* Periodic release: delay_from_for () and delay_from_for_ms () of         *)
(* TaskBase, as the loop of task_brightness::run () calls them.            *)
(***************************************************************************)
configTICK_RATE_HZ == 1000

\* the periods the task asks for, in milliseconds, and how far time runs
MaxMs == 3
MaxDuTick == 8

\* vTaskDelayUntil (pxPreviousWakeTime, xTimeIncrement) at tick count now:
\* the wake time is the reference plus the increment, the reference is set
\* to the wake time, and the task blocks if the wake time is still ahead
vTaskDelayUntil(pxPreviousWakeTime, xTimeIncrement, now) ==
    LET xTimeToWake == pxPreviousWakeTime + xTimeIncrement IN
    [wake |-> xTimeToWake, reference |-> xTimeToWake,
     blocks |-> xTimeToWake > now]

\* vTaskDelay (xTicksToDelay) at tick count now: the wake time is counted
\* from the call
vTaskDelay(xTicksToDelay, now) ==
    [wake |-> now + xTicksToDelay, reference |-> now + xTicksToDelay,
     blocks |-> xTicksToDelay > 0]

\* a periodic task built on delay (), which counts from the call
delay_from_call(from_ticks, for_how_long, now) ==
    vTaskDelay(for_how_long, now)

\* delay_from_for (from_ticks, for_how_long)
delay_from_for(from_ticks, for_how_long, now) ==
    vTaskDelayUntil(from_ticks, for_how_long, now)

\* the conversion in delay_from_for_ms (): milliseconds to ticks
ms_to_ticks(millisec) == (millisec * configTICK_RATE_HZ) \div 1000

delay_from_for_ms(from_ticks, millisec, now) ==
    delay_from_for(from_ticks, ms_to_ticks(millisec), now)

\* TickType_t previousTicks = xTaskGetTickCount (); the period is the
\* constant the loop passes
DuRunEnters(millisec) ==
    /\ du_pc = "start"
    /\ previousTicks' = du_tick
    /\ du_t0' = du_tick
    /\ du_ms' = millisec
    /\ du_pc' = "loop"
    /\ UNCHANGED <<du_tick, du_wake, du_calls, du_releases, du_overrun,
                   du_slack>>
    /\ dOthers

\* the end of one pass of the loop: delay_from_for_ms (previousTicks, ms)
DuDelayCall ==
    /\ du_pc = "loop"
    /\ LET r == delay_from_for_ms(previousTicks, du_ms, du_tick) IN
         /\ previousTicks' = r.reference
         /\ du_wake' = r.wake
         /\ du_pc' = IF r.blocks THEN "blocked" ELSE "loop"
         /\ du_releases' = IF r.blocks THEN du_releases
                           ELSE Append(du_releases, du_tick)
         /\ du_overrun' = (du_overrun \/ du_tick > r.wake)
    /\ du_slack' = (du_slack \/ du_tick > previousTicks)
    /\ du_calls' = du_calls + 1
    /\ UNCHANGED <<du_tick, du_ms, du_t0>>
    /\ dOthers

\* the tick interrupt: the count goes up and a task whose wake time has
\* come is made ready
DuTickISR ==
    /\ du_tick < MaxDuTick
    /\ du_tick' = du_tick + 1
    /\ IF du_pc = "blocked" /\ du_tick + 1 = du_wake
         THEN /\ du_pc' = "loop"
              /\ du_releases' = Append(du_releases, du_tick + 1)
         ELSE UNCHANGED <<du_pc, du_releases>>
    /\ UNCHANGED <<previousTicks, du_ms, du_wake, du_t0, du_calls,
                   du_overrun, du_slack>>
    /\ dOthers

InitDelayUntil ==
    /\ du_tick = 0
    /\ previousTicks = 0
    /\ du_pc = "start"
    /\ du_ms = 0
    /\ du_wake = 0
    /\ du_t0 = 0
    /\ du_calls = 0
    /\ du_releases = <<>>
    /\ du_overrun = FALSE
    /\ du_slack = FALSE

NextDelayUntil ==
    \/ \E millisec \in 1..MaxMs : DuRunEnters(millisec)
    \/ DuDelayCall
    \/ DuTickISR


(***************************************************************************)
(* The list of shared data items: every TaskShare, TaskQueue and TextQueue *)
(* is a BaseShare, whose constructor installs it in a linked list that     *)
(* print_all_shares () walks.                                              *)
(***************************************************************************)
MaxShares == 4
ShareIds == 1..MaxShares

RECURSIVE Reverse(_)
Reverse(seq) ==
    IF seq = <<>> THEN <<>>
    ELSE Append(Reverse(Tail(seq)), Head(seq))

\* an item that forgets the list it is put in front of
install_alone(this) == [p_next |-> 0, p_newest |-> this]

\* p_next = p_newest; p_newest = this;
install_in_list(this) == [p_next |-> p_newest, p_newest |-> this]

\* BaseShare::BaseShare (), called by the constructor of a share or queue
BaseShareConstruct(this) ==
    /\ \A i \in 1..Len(br_order) : br_order[i] # this
    /\ p_next' = [p_next EXCEPT ![this] = install_in_list(this).p_next]
    /\ p_newest' = install_in_list(this).p_newest
    /\ br_order' = Append(br_order, this)
    /\ UNCHANGED <<br_pc, br_at, br_visited, br_order_then>>
    /\ bOthers

\* print_all_shares (): begins at the newest item, if there is one
PrintAllShares ==
    /\ br_pc = "idle"
    /\ br_visited' = <<>>
    /\ br_order_then' = br_order
    /\ br_at' = p_newest
    /\ br_pc' = IF p_newest # 0 THEN "in_list" ELSE "done"
    /\ UNCHANGED <<p_newest, p_next, br_order>>
    /\ bOthers

\* print_in_list () of one item: prints it and calls the next one's, if
\* there is a next one
PrintInList ==
    /\ br_pc = "in_list"
    /\ br_visited' = Append(br_visited, br_at)
    /\ br_at' = p_next[br_at]
    /\ br_pc' = IF p_next[br_at] # 0 THEN "in_list" ELSE "done"
    /\ UNCHANGED <<p_newest, p_next, br_order, br_order_then>>
    /\ bOthers

\* the printout has returned; the user may ask for another
PrintAllReturns ==
    /\ br_pc = "done"
    /\ br_pc' = "idle"
    /\ UNCHANGED <<p_newest, p_next, br_order, br_at, br_visited,
                   br_order_then>>
    /\ bOthers

InitShareList ==
    /\ p_newest = 0
    /\ p_next = [i \in ShareIds |-> 0]
    /\ br_order = <<>>
    /\ br_pc = "idle"
    /\ br_at = 0
    /\ br_visited = <<>>
    /\ br_order_then = <<>>

NextShareList ==
    \/ \E this \in ShareIds : BaseShareConstruct(this)
    \/ PrintAllShares
    \/ PrintInList
    \/ PrintAllReturns


(***************************************************************************)
(* The list of tasks: the constructor of TaskBase links each task to the   *)
(* one constructed before it; print_task_list () and print_task_stacks ()  *)
(* walk the list.                                                          *)
(***************************************************************************)
MaxTasks == 4
TaskIds == 1..MaxTasks

Printouts == {"print_task_list", "print_task_stacks"}

\* a task that keeps no pointer to the one before it
link_to_nothing(this) ==
    [prev_task_pointer |-> 0, last_created_task_pointer |-> this]

\* prev_task_pointer = last_created_task_pointer;
\* last_created_task_pointer = this;
link_to_previous(this) ==
    [prev_task_pointer |-> last_created_task_pointer,
     last_created_task_pointer |-> this]

\* TaskBase::TaskBase (), as far as the list goes
TaskBaseConstruct(this) ==
    /\ \A i \in 1..Len(tl_order) : tl_order[i] # this
    /\ prev_task_pointer' =
         [prev_task_pointer EXCEPT ![this] =
              link_to_previous(this).prev_task_pointer]
    /\ last_created_task_pointer' =
         link_to_previous(this).last_created_task_pointer
    /\ tl_order' = Append(tl_order, this)
    /\ UNCHANGED <<tl_pc, tl_which, tl_at, tl_visited, tl_order_then>>
    /\ lOthers

\* print_task_list () or print_task_stacks (): begins at the task made last
PrintTasks(which) ==
    /\ tl_pc = "idle"
    /\ tl_which' = which
    /\ tl_visited' = <<>>
    /\ tl_order_then' = tl_order
    /\ tl_at' = last_created_task_pointer
    /\ tl_pc' = IF last_created_task_pointer # 0 THEN "in_list" ELSE "idle_task"
    /\ UNCHANGED <<last_created_task_pointer, prev_task_pointer, tl_order>>
    /\ lOthers

\* print_status_in_list () or print_stack_in_list () of one task: prints it
\* and calls the previous task's, if there is one
PrintTaskInList ==
    /\ tl_pc = "in_list"
    /\ tl_visited' = Append(tl_visited, tl_at)
    /\ IF prev_task_pointer[tl_at] # 0
         THEN /\ tl_at' = prev_task_pointer[tl_at]
              /\ tl_pc' = "in_list"
         ELSE /\ tl_at' = tl_at
              /\ tl_pc' = "idle_task"
    /\ UNCHANGED <<last_created_task_pointer, prev_task_pointer, tl_order,
                   tl_which, tl_order_then>>
    /\ lOthers

\* the line for the idle task ends the printout
PrintIdleTask ==
    /\ tl_pc = "idle_task"
    /\ tl_pc' = "idle"
    /\ UNCHANGED <<last_created_task_pointer, prev_task_pointer, tl_order,
                   tl_which, tl_at, tl_visited, tl_order_then>>
    /\ lOthers

InitTaskList ==
    /\ last_created_task_pointer = 0
    /\ prev_task_pointer = [i \in TaskIds |-> 0]
    /\ tl_order = <<>>
    /\ tl_pc = "idle"
    /\ tl_which = "print_task_list"
    /\ tl_at = 0
    /\ tl_visited = <<>>
    /\ tl_order_then = <<>>

NextTaskList ==
    \/ \E this \in TaskIds : TaskBaseConstruct(this)
    \/ \E which \in Printouts : PrintTasks(which)
    \/ PrintTaskInList
    \/ PrintIdleTask


(***************************************************************************)
(* rs232::putchar (): polls the "data register empty" flag of the UART and *)
(* gives up after UART_TX_TOUT tries.                                      *)
(***************************************************************************)
UART_TX_TOUT == 20000

\* the character the caller sends
TxChars == {65}

\* a loop that gives up at the first test of the flag that fails
tx_gives_up_at_once(count) == count >= 0

\* if (count > UART_TX_TOUT) return;
tx_timed_out(count) == count > UART_TX_TOUT

PutcharCall(chout) ==
    /\ tx_pc = "idle"
    /\ tx_chout' = chout
    /\ tx_count' = 0
    /\ tx_polls' = 0
    /\ tx_wrote' = FALSE
    /\ tx_UDR_before' = UDR
    /\ tx_pc' = "poll"
    /\ UNCHANGED <<UDR, TXC_cleared>>
    /\ xOthers

\* one pass of the for loop: the test of the flag, which the hardware sets
\* when it will, then the test of the count and count++
PutcharPoll(UDRE) ==
    /\ tx_pc = "poll"
    /\ tx_polls' = tx_polls + 1
    /\ IF UDRE
         THEN /\ tx_pc' = "send"
              /\ tx_count' = tx_count
         ELSE IF tx_timed_out(tx_count)
         THEN /\ tx_pc' = "gave_up"
              /\ tx_count' = tx_count
         ELSE /\ tx_pc' = "poll"
              /\ tx_count' = (tx_count + 1) % 65536
    /\ UNCHANGED <<UDR, TXC_cleared, tx_chout, tx_wrote, tx_UDR_before>>
    /\ xOthers

\* *p_USR |= mask_TXC; *p_UDR = chout;
PutcharSend ==
    /\ tx_pc = "send"
    /\ TXC_cleared' = TRUE
    /\ UDR' = tx_chout
    /\ tx_wrote' = TRUE
    /\ tx_pc' = "sent"
    /\ UNCHANGED <<tx_chout, tx_count, tx_polls, tx_UDR_before>>
    /\ xOthers

\* putchar () returns, whichever way
PutcharReturn ==
    /\ tx_pc \in {"sent", "gave_up"}
    /\ tx_pc' = "idle"
    /\ UNCHANGED <<UDR, TXC_cleared, tx_chout, tx_count, tx_polls, tx_wrote,
                   tx_UDR_before>>
    /\ xOthers

InitPutchar ==
    /\ UDR = 0
    /\ TXC_cleared = FALSE
    /\ tx_pc = "idle"
    /\ tx_chout = 0
    /\ tx_count = 0
    /\ tx_polls = 0
    /\ tx_wrote = FALSE
    /\ tx_UDR_before = 0

NextPutchar ==
    \/ \E chout \in TxChars : PutcharCall(chout)
    \/ \E UDRE \in BOOLEAN : PutcharPoll(UDRE)
    \/ PutcharSend
    \/ PutcharReturn


(***************************************************************************)
(* Two rs232 objects, one per serial port of a dual-port chip (UCSR0A and  *)
(* UCSR1A defined), with the receive interrupt of each port.               *)
(***************************************************************************)
PortNums == {0, 1}
PortChars == {1, 2}
MaxPortChars == 2

OtherPort(p) == 1 - p

\* a driver that keeps one receiver buffer for both ports
rcv_shared(port_num) == port_num * 0

\* if (port_num == 0) ... rcv0_... else ... rcv1_...
rcv_of(port_num) == IF port_num = 0 THEN 0 ELSE 1

IndexAfter(i) == IF i + 1 >= RSINT_BUF_SIZE THEN 0 ELSE i + 1

\* ISR (RSI_CHAR_RECV_INT_0) and ISR (RSI_CHAR_RECV_INT_1): the ISR of port
\* p stores the character of UDRp
PortReceiveISR(p, ch) ==
    /\ pp_arrived[p] < MaxPortChars
    /\ pp_arrived' = [pp_arrived EXCEPT ![p] = @ + 1]
    /\ rcv_buffer' = [rcv_buffer EXCEPT ![p][rcv_write_index[p]] = ch]
    /\ rcv_write_index' =
         [rcv_write_index EXCEPT ![p] = IndexAfter(rcv_write_index[p])]
    /\ rcv_read_index' =
         IF IndexAfter(rcv_write_index[p]) = rcv_read_index[p]
           THEN [rcv_read_index EXCEPT ![p] = IndexAfter(rcv_read_index[p])]
           ELSE rcv_read_index
    /\ pp_op' = "isr"
    /\ pp_port' = p
    /\ pp_touched' = {p}
    /\ UNCHANGED <<pp_char, pp_avail>>
    /\ pOthers

\* getchar () of the object for port port_num, once its wait is over
PortGetchar(port_num) ==
    LET n == rcv_of(port_num) IN
    /\ rcv_read_index[n] # rcv_write_index[n]
    /\ pp_char' = rcv_buffer[n][rcv_read_index[n]]
    /\ rcv_read_index' =
         [rcv_read_index EXCEPT ![n] = IndexAfter(rcv_read_index[n])]
    /\ pp_op' = "getchar"
    /\ pp_port' = port_num
    /\ pp_touched' = {n}
    /\ UNCHANGED <<rcv_buffer, rcv_write_index, pp_arrived, pp_avail>>
    /\ pOthers

\* check_for_char () of the object for port port_num
PortCheckForChar(port_num) ==
    LET n == rcv_of(port_num) IN
    /\ pp_avail' = (rcv_read_index[n] # rcv_write_index[n])
    /\ pp_op' = "check_for_char"
    /\ pp_port' = port_num
    /\ pp_touched' = {n}
    /\ UNCHANGED <<rcv_buffer, rcv_read_index, rcv_write_index, pp_arrived,
                   pp_char>>
    /\ pOthers

\* both objects have been constructed
InitPorts ==
    /\ rcv_buffer = [p \in PortNums |-> [i \in 0..(RSINT_BUF_SIZE - 1) |-> 0]]
    /\ rcv_read_index = [p \in PortNums |-> 0]
    /\ rcv_write_index = [p \in PortNums |-> 0]
    /\ pp_arrived = [p \in PortNums |-> 0]
    /\ pp_op = "none"
    /\ pp_port = 0
    /\ pp_touched = {}
    /\ pp_char = 0
    /\ pp_avail = FALSE

NextPorts ==
    \/ \E p \in PortNums, ch \in PortChars : PortReceiveISR(p, ch)
    \/ \E port_num \in PortNums : PortGetchar(port_num)
    \/ \E port_num \in PortNums : PortCheckForChar(port_num)


(***************************************************************************)
(* glob_of_probs: a global uint32_t that task_source writes and task_sink  *)
(* reads with no protection.  The AVR moves it one byte at a time; both    *)
(* tasks have priority 2, and the tick interrupt may switch from one to    *)
(* the other between any two instructions.                                 *)
(***************************************************************************)
MaxGlobErrors == 2

\* a source that leaves the global untouched every other time
source_value_or_zero(toggle) == IF toggle THEN V12345678 ELSE ZeroWord

\* if (toggler) glob_of_probs = 0x12345678; else glob_of_probs = 0x87654321;
source_value(toggle) == IF toggle THEN V12345678 ELSE V87654321

\* received_data != 0x87654321 && received_data != 0x12345678
sink_sees_error(data) == data # V87654321 /\ data # V12345678

SourceWriting == gp_wi \in 1..3
SinkReading == gp_pc = "read" /\ gp_ri \in 1..3

\* task_source: one byte of the assignment to glob_of_probs is stored;
\* after the last one, toggler ^= 0x01
SourceStoreByte ==
    /\ glob_of_probs' =
         [glob_of_probs EXCEPT ![gp_wi + 1] = source_value(toggler)[gp_wi + 1]]
    /\ IF gp_wi = 3
         THEN /\ gp_wi' = 0
              /\ toggler' = ~toggler
              /\ gp_written' = TRUE
         ELSE /\ gp_wi' = gp_wi + 1
              /\ UNCHANGED <<toggler, gp_written>>
    /\ gp_switched' = (gp_switched \/ SinkReading)
    /\ UNCHANGED <<gp_pc, gp_ri, received_data, global_errors,
                   gp_written_then>>
    /\ oOthers

\* task_sink: one byte of received_data = glob_of_probs is loaded
SinkLoadByte ==
    /\ gp_pc = "read"
    /\ global_errors < MaxGlobErrors
    /\ received_data' =
         [received_data EXCEPT ![gp_ri + 1] = glob_of_probs[gp_ri + 1]]
    /\ gp_written_then' = IF gp_ri = 0 THEN gp_written ELSE gp_written_then
    /\ gp_switched' = IF gp_ri = 0 THEN SourceWriting
                      ELSE (gp_switched \/ SourceWriting)
    /\ IF gp_ri = 3
         THEN /\ gp_ri' = 0
              /\ gp_pc' = "compare"
         ELSE /\ gp_ri' = gp_ri + 1
              /\ gp_pc' = "read"
    /\ UNCHANGED <<glob_of_probs, toggler, gp_wi, gp_written, global_errors>>
    /\ oOthers

\* task_sink: the test of what was read, and global_errors++
SinkCompare ==
    /\ gp_pc = "compare"
    /\ global_errors' = IF sink_sees_error(received_data)
                        THEN global_errors + 1 ELSE global_errors
    /\ gp_pc' = "read"
    /\ UNCHANGED <<glob_of_probs, toggler, gp_wi, gp_written, gp_ri,
                   received_data, gp_written_then, gp_switched>>
    /\ oOthers

\* the global is zero at start-up; received_data starts as 0x12345678
InitGlob ==
    /\ glob_of_probs = ZeroWord
    /\ toggler = FALSE
    /\ gp_wi = 0
    /\ gp_written = FALSE
    /\ gp_pc = "read"
    /\ gp_ri = 0
    /\ received_data = V12345678
    /\ global_errors = 0
    /\ gp_written_then = FALSE
    /\ gp_switched = FALSE

NextGlob == SourceStoreByte \/ SinkLoadByte \/ SinkCompare


(***************************************************************************)
(* communication_data: setters and getters of the fields of its            *)
(* data_for_tasks.                                                         *)
(***************************************************************************)
Int16Fields ==
    {"motor_output", "speed_setpoint", "steer_output", "wheel_speed",
     "imu_angle"}
Int8Fields == {"desired_gear", "actual_gear"}
BoolFields == {"desired_5th", "actual_5th"}
Fields == Int16Fields \cup Int8Fields \cup BoolFields

\* the values callers pass: two of each type
FieldValues(f) == IF f \in BoolFields THEN BOOLEAN ELSE {0, 1}

\* setters that each assign the field they are named after
setter_target_own(f) == f

\* the member of data_for_tasks that set_<f> () assigns
setter_target(f) ==
    CASE f = "motor_output" -> "motor_output"
      [] f = "speed_setpoint" -> "motor_output"
      [] f = "steer_output" -> "steer_output"
      [] f = "wheel_speed" -> "steer_output"
      [] f = "imu_angle" -> "imu_angle"
      [] f = "desired_gear" -> "desired_gear"
      [] f = "actual_gear" -> "actual_gear"
      [] f = "desired_5th" -> "desired_5th"
      [] f = "actual_5th" -> "desired_5th"

\* the member of data_for_tasks that get_<f> () returns
getter_source(f) ==
    CASE f = "motor_output" -> "motor_output"
      [] f = "speed_setpoint" -> "speed_setpoint"
      [] f = "steer_output" -> "steer_output"
      [] f = "wheel_speed" -> "wheel_speed"
      [] f = "imu_angle" -> "imu_angle"
      [] f = "desired_gear" -> "desired_gear"
      [] f = "actual_gear" -> "actual_gear"
      [] f = "desired_5th" -> "desired_5th"
      [] f = "actual_5th" -> "actual_5th"

\* set_<f> (in_data)
CdSet(f, in_data) ==
    /\ data_for_tasks' = [data_for_tasks EXCEPT ![setter_target(f)] = in_data]
    /\ cd_written' = cd_written \cup {setter_target(f)}
    /\ cd_op' = "set"
    /\ cd_field' = f
    /\ cd_val' = in_data
    /\ eOthers

\* get_<f> (): a member that was never assigned holds whatever the heap
\* held, the constructor initialising nothing
CdGet(f, heap) ==
    /\ cd_op' = "get"
    /\ cd_field' = f
    /\ cd_val' = IF getter_source(f) \in cd_written
                 THEN data_for_tasks[getter_source(f)] ELSE heap
    /\ UNCHANGED <<data_for_tasks, cd_written>>
    /\ eOthers

InitCommData ==
    /\ data_for_tasks =
         [f \in Fields |-> IF f \in BoolFields THEN FALSE ELSE 0]
    /\ cd_written = {}
    /\ cd_op = "none"
    /\ cd_field = "none"
    /\ cd_val = 0

NextCommData ==
    \/ \E f \in Fields : \E in_data \in FieldValues(f) : CdSet(f, in_data)
    \/ \E f \in Fields : \E heap \in FieldValues(f) : CdGet(f, heap)


(***************************************************************************)
(* mega_comm_task: reads the set points the Raspberry Pi sends and writes  *)
(* back what the truck measures.                                           *)
(***************************************************************************)
MaxPiBytes == 7
PiBytes == {1, 2}
HeapWords == {0, 258}

Int16(x) == ((x + 32768) % 65536) - 32768

\* read_16bit_val (), pass i of its loop with temp, the character as the
\* build promotes it to int: temp & (char) 0xFF is temp whether plain char
\* is signed or not, and it replaces ret_val, which is shifted unless the
\* pass is the last
read_16bit_pass(ret_val, temp, i) ==
    IF i # 1 THEN Int16(temp * 256) ELSE temp

\* write_16bit_val (write_val): the low byte first, then the high byte
write_16bit_val(write_val) ==
    <<(write_val + 65536) % 256, ((write_val + 65536) \div 256) % 256>>

\* the receive interrupt of the port: masked inside a critical section
PiReceiveISR(ch) ==
    /\ ~mc_crit
    /\ mc_arrived < MaxPiBytes
    /\ mc_arrived' = mc_arrived + 1
    /\ mc_rx' = Append(mc_rx, ch)
    /\ UNCHANGED <<mc_pc, mc_crit, mc_k, mc_ret_val, mc_data, mc_tx,
                   mc_reads, mc_writes>>
    /\ mOthers

\* read_from_pi (): portENTER_CRITICAL (); if (check_for_char ()) ...
\* else portEXIT_CRITICAL ();
ReadFromPiEnters ==
    /\ mc_pc = "read_from_pi"
    /\ IF mc_rx # <<>>
         THEN /\ mc_pc' = "getchar"
              /\ mc_crit' = TRUE
              /\ mc_reads' = mc_reads
         ELSE /\ mc_pc' = "write_to_pi"
              /\ mc_crit' = FALSE
              /\ mc_reads' = mc_reads + 1
    /\ mc_k' = 0
    /\ UNCHANGED <<mc_rx, mc_arrived, mc_ret_val, mc_data, mc_tx, mc_writes>>
    /\ mOthers

\* one getchar () of read_from_pi (), which waits until the buffer holds a
\* character, and what is done with the character: the first four feed
\* two read_16bit_val (), the fifth is the gear, the sixth the fifth wheel
ReadFromPiGetchar ==
    /\ mc_pc = "getchar"
    /\ mc_rx # <<>>
    /\ LET temp == Head(mc_rx)
           ret_val == IF mc_k < 4 THEN read_16bit_pass(mc_ret_val, temp, mc_k % 2)
                      ELSE mc_ret_val
       IN
         /\ mc_ret_val' = ret_val
         /\ mc_data' =
              CASE mc_k = 1 ->
                     [mc_data EXCEPT ![setter_target("motor_output")] = ret_val]
                [] mc_k = 3 ->
                     [mc_data EXCEPT ![setter_target("steer_output")] = ret_val]
                [] mc_k = 4 ->
                     [mc_data EXCEPT ![setter_target("desired_gear")] =
                          Int8(temp)]
                [] mc_k = 5 ->
                     [mc_data EXCEPT ![setter_target("desired_5th")] =
                          (temp # 0)]
                [] OTHER -> mc_data
    /\ mc_rx' = Tail(mc_rx)
    /\ IF mc_k = 5
         THEN /\ mc_pc' = "write_to_pi"
              /\ mc_crit' = FALSE
              /\ mc_k' = 0
              /\ mc_reads' = mc_reads + 1
         ELSE /\ mc_pc' = "getchar"
              /\ mc_crit' = TRUE
              /\ mc_k' = mc_k + 1
              /\ mc_reads' = mc_reads
    /\ UNCHANGED <<mc_arrived, mc_tx, mc_writes>>
    /\ mOthers

\* write_to_pi (): the wheel speed and the angle as two bytes each, then
\* the gear and the fifth wheel; no setter ever assigns wheel_speed or
\* actual_5th, and none is called for imu_angle and actual_gear, so the
\* four hold what the heap held
WriteToPi(wheel_speed, imu_angle, gear, fifth) ==
    /\ mc_pc = "write_to_pi"
    /\ mc_tx' = write_16bit_val(wheel_speed) \o write_16bit_val(imu_angle)
                  \o <<gear % 256, IF fifth THEN 1 ELSE 0>>
    /\ mc_writes' = mc_writes + 1
    /\ mc_pc' = "delay_ms"
    /\ UNCHANGED <<mc_crit, mc_rx, mc_arrived, mc_k, mc_ret_val, mc_data,
                   mc_reads>>
    /\ mOthers

\* delay_ms (10) is over, and with it run ()
RunReturns ==
    /\ mc_pc = "delay_ms"
    /\ mc_pc' = "returned"
    /\ UNCHANGED <<mc_crit, mc_rx, mc_arrived, mc_k, mc_ret_val, mc_data,
                   mc_tx, mc_reads, mc_writes>>
    /\ mOthers

\* TaskBase::_call_users_run_method () after run (): the task is parked
RunParked ==
    /\ mc_pc = "returned"
    /\ mc_pc' = "parked"
    /\ UNCHANGED <<mc_crit, mc_rx, mc_arrived, mc_k, mc_ret_val, mc_data,
                   mc_tx, mc_reads, mc_writes>>
    /\ mOthers

\* the scheduler has called run ()
InitMegaComm ==
    /\ mc_pc = "read_from_pi"
    /\ mc_crit = FALSE
    /\ mc_rx = <<>>
    /\ mc_arrived = 0
    /\ mc_k = 0
    /\ mc_ret_val = 0
    /\ mc_data = [f \in Fields |-> IF f \in BoolFields THEN FALSE ELSE 0]
    /\ mc_tx = <<>>
    /\ mc_reads = 0
    /\ mc_writes = 0

NextMegaComm ==
    \/ \E ch \in PiBytes : PiReceiveISR(ch)
    \/ ReadFromPiEnters
    \/ ReadFromPiGetchar
    \/ \E wheel_speed \in HeapWords, imu_angle \in HeapWords,
          gear \in PiBytes, fifth \in BOOLEAN :
          WriteToPi(wheel_speed, imu_angle, gear, fifth)
    \/ RunReturns
    \/ RunParked


(***************************************************************************)
(* write_16bit_val () and read_16bit_val () of mega_comm_task, end to end: *)
(* the bytes one writes are the characters the other gets.                 *)
(***************************************************************************)
MaxWord == 3
Words == (-MaxWord..MaxWord)
           \cup {-32768, -32767, -4660, -258, -257, -256, -255, -129, -128,
                 127, 128, 255, 256, 257, 258, 4660, 32767}

\* getchar () returns the byte as a plain char, which the build takes as
\* signed or as unsigned
AsChar(byte, is_signed) ==
    IF is_signed /\ byte >= 128 THEN byte - 256 ELSE byte

\* write_16bit_val (write_val) puts its two bytes on the line
RtWrite(write_val, is_signed) ==
    /\ rt_pc = "idle"
    /\ rt_v' = write_val
    /\ rt_signed' = is_signed
    /\ rt_bytes' = write_16bit_val(write_val)
    /\ rt_i' = 0
    /\ rt_ret_val' = 0
    /\ rt_pc' = "written"
    /\ wOthers

\* one pass of the loop of read_16bit_val (): temp = getchar (); ...
RtReadPass ==
    /\ rt_pc = "written"
    /\ rt_ret_val' =
         read_16bit_pass(rt_ret_val, AsChar(rt_bytes[rt_i + 1], rt_signed),
                         rt_i)
    /\ rt_i' = rt_i + 1
    /\ rt_pc' = IF rt_i = 1 THEN "read" ELSE "written"
    /\ UNCHANGED <<rt_v, rt_signed, rt_bytes>>
    /\ wOthers

InitRoundTrip ==
    /\ rt_pc = "idle"
    /\ rt_v = 0
    /\ rt_signed = FALSE
    /\ rt_bytes = <<>>
    /\ rt_i = 0
    /\ rt_ret_val = 0

NextRoundTrip ==
    \/ \E write_val \in Words, is_signed \in BOOLEAN :
          RtWrite(write_val, is_signed)
    \/ RtReadPass


(***************************************************************************)
(* circ_buffer<qType, qSize> (lib/misc/circ_buffer.h)                      *)
(***************************************************************************)
qSize == 3
MaxCbPuts == 5

\* the items put in: the k-th put () or jam () writes the number k
CbItems == 1..MaxCbPuts
\* what the memory of the array, and the memory after it, may hold before
\* anything has been written there
CbStale == {0, 77}
\* (qType)(-1)
CbMinusOne == -1

\* if (++i >= qSize) i = 0;
cb_advance(i) == IF i + 1 >= qSize THEN 0 ELSE i + 1

\* operator[]: if (index > how_full) return ((qType)(-1));
subscript_refused(index, full) == index > full

\* operator[]: getIndex = i_get + index; if (getIndex > qSize) getIndex -= qSize;
subscript_getIndex(get, index) ==
    IF get + index > qSize THEN get + index - qSize ELSE get + index

\* circ_buffer (void): flush (); the array itself is not written
CbConstruct(memory) ==
    /\ cb_pc = "unbuilt"
    /\ cb_pc' = "built"
    /\ buffer' = memory
    /\ i_put' = 0
    /\ i_get' = 0
    /\ how_full' = 0
    /\ UNCHANGED <<cb_held, cb_puts, cb_op, cb_index, cb_full_then,
                   cb_held_then, cb_result, cb_outside>>
    /\ uOthers

\* bool put (qType data)
CbPut ==
    /\ cb_pc = "built"
    /\ cb_puts < MaxCbPuts
    /\ cb_puts' = cb_puts + 1
    /\ cb_op' = "put"
    /\ IF how_full >= qSize
         THEN /\ cb_result' = 0
              /\ UNCHANGED <<buffer, i_put, how_full, cb_held>>
         ELSE /\ buffer' = [buffer EXCEPT ![i_put] = cb_puts + 1]
              /\ i_put' = cb_advance(i_put)
              /\ how_full' = how_full + 1
              /\ cb_held' = Append(cb_held, cb_puts + 1)
              /\ cb_result' = 1
    /\ UNCHANGED <<cb_pc, i_get, cb_index, cb_full_then, cb_held_then,
                   cb_outside>>
    /\ uOthers

\* bool jam (qType data)
CbJam ==
    /\ cb_pc = "built"
    /\ cb_puts < MaxCbPuts
    /\ cb_puts' = cb_puts + 1
    /\ cb_op' = "jam"
    /\ buffer' = [buffer EXCEPT ![i_put] = cb_puts + 1]
    /\ i_put' = cb_advance(i_put)
    /\ IF how_full >= qSize
         THEN /\ i_get' = cb_advance(i_get)
              /\ cb_held' = Append(Tail(cb_held), cb_puts + 1)
              /\ cb_result' = 0
              /\ UNCHANGED how_full
         ELSE /\ how_full' = how_full + 1
              /\ cb_held' = Append(cb_held, cb_puts + 1)
              /\ cb_result' = 1
              /\ UNCHANGED i_get
    /\ UNCHANGED <<cb_pc, cb_index, cb_full_then, cb_held_then, cb_outside>>
    /\ uOthers

\* qType get (void)
CbGet ==
    /\ cb_pc = "built"
    /\ cb_op' = "get"
    /\ cb_result' = buffer[i_get]
    /\ IF how_full > 0
         THEN /\ i_get' = cb_advance(i_get)
              /\ how_full' = how_full - 1
              /\ cb_held' = Tail(cb_held)
         ELSE UNCHANGED <<i_get, how_full, cb_held>>
    /\ <<cb_op, cb_result, i_get>>' # <<cb_op, cb_result, i_get>>
    /\ UNCHANGED <<cb_pc, buffer, i_put, cb_puts, cb_index, cb_full_then,
                   cb_held_then, cb_outside>>
    /\ uOthers

\* qType operator[] (size_t index); beyond is what the memory after the
\* array holds when buffer[qSize] is read
CbSubscript(index, beyond) ==
    /\ cb_pc = "built"
    /\ cb_op' = "subscript"
    /\ cb_index' = index
    /\ cb_full_then' = how_full
    /\ cb_held_then' = cb_held
    /\ IF subscript_refused(index, how_full)
         THEN /\ cb_result' = CbMinusOne
              /\ cb_outside' = FALSE
         ELSE /\ cb_outside' =
                    (subscript_getIndex(i_get, index) \notin 0..(qSize - 1))
              /\ cb_result' =
                    IF cb_outside'
                      THEN beyond
                      ELSE buffer[subscript_getIndex(i_get, index)]
    /\ <<cb_op, cb_index, cb_result, cb_outside>>'
           # <<cb_op, cb_index, cb_result, cb_outside>>
    /\ UNCHANGED <<cb_pc, buffer, i_put, i_get, how_full, cb_held, cb_puts>>
    /\ uOthers

InitCircBuffer ==
    /\ cb_pc = "unbuilt"
    /\ buffer = [i \in 0..(qSize - 1) |-> 0]
    /\ i_put = 0
    /\ i_get = 0
    /\ how_full = 0
    /\ cb_held = <<>>
    /\ cb_puts = 0
    /\ cb_op = "none"
    /\ cb_index = 0
    /\ cb_full_then = 0
    /\ cb_held_then = <<>>
    /\ cb_result = 0
    /\ cb_outside = FALSE

NextCircBuffer ==
    \/ \E memory \in [0..(qSize - 1) -> CbStale] : CbConstruct(memory)
    \/ CbPut
    \/ CbJam
    \/ CbGet
    \/ \E index \in 0..(qSize + 1), beyond \in CbStale :
          CbSubscript(index, beyond)


(***************************************************************************)
(* i2c_master (lib/sensors/i2c_master.cpp) and hmc6352::heading ()         *)
(***************************************************************************)
MaxI2cCount == 3

I2cTasks == {"task_a", "task_b"}
NoTask == "none"
I2cOps == {"read", "read_n", "write", "write_n", "ping", "heading"}
\* uint8_t count
I2cCounts == (0..MaxI2cCount) \cup {255}

\* xSemaphoreTake (mutex, portMAX_DELAY) returns when no task holds the
\* mutex
xSemaphoreTake(holder) == holder = NoTask

\* a take that does not wait for the holder
take_mutex_at_once(holder) == TRUE

\* xSemaphoreTake (mutex, portMAX_DELAY);  // Take the mutex or wait for it
take_mutex(holder) == xSemaphoreTake(holder)

\* for (uint8_t index = count - 1; ...
read_loop_start(count) == (count - 1) % 256

\* a task is inside a bus transaction from the moment it has the mutex
\* until its call returns
InTransaction(t) == i2c_pc[t] \notin {"idle", "take"}

\* a task calls read (), write (), ping () or heading ()
I2cCall(t, op, count) ==
    /\ i2c_pc[t] = "idle"
    /\ op \in {"read_n", "write_n"} \/ count = 0
    /\ i2c_pc' = [i2c_pc EXCEPT ![t] = "take"]
    /\ i2c_op' = [i2c_op EXCEPT ![t] = op]
    /\ i2c_count' = [i2c_count EXCEPT ![t] = count]
    /\ i2c_stored' = [i2c_stored EXCEPT ![t] = 0]
    /\ i2c_result' = [i2c_result EXCEPT ![t] = "none"]
    /\ UNCHANGED <<i2c_mutex, i2c_index, bus_open>>
    /\ iOthers

\* xSemaphoreTake (mutex, portMAX_DELAY) at the head of each call, and
\* take_mutex () at the head of heading ()
I2cTake(t) ==
    /\ i2c_pc[t] = "take"
    /\ take_mutex(i2c_mutex)
    /\ i2c_mutex' = t
    /\ i2c_pc' = [i2c_pc EXCEPT ![t] =
                     IF i2c_op[t] = "ping" THEN "ping"
                     ELSE IF i2c_op[t] = "heading" THEN "command"
                     ELSE "address"]
    /\ UNCHANGED <<i2c_op, i2c_count, i2c_index, i2c_stored, i2c_result,
                   bus_open>>
    /\ iOthers

\* read () and write (): start (); the address, the register (and in the
\* one-byte write the data) are written; without an acknowledgement the
\* mutex is given and the call returns
I2cAddress(t, acked) ==
    /\ i2c_pc[t] = "address"
    /\ IF ~acked
         THEN /\ bus_open' = TRUE
              /\ i2c_mutex' = NoTask
              /\ i2c_result' = [i2c_result EXCEPT ![t] = "error"]
              /\ i2c_pc' = [i2c_pc EXCEPT ![t] = "idle"]
         ELSE IF i2c_op[t] = "write"
         THEN /\ bus_open' = FALSE
              /\ i2c_mutex' = NoTask
              /\ i2c_result' = [i2c_result EXCEPT ![t] = "ok"]
              /\ i2c_pc' = [i2c_pc EXCEPT ![t] = "idle"]
         ELSE IF i2c_op[t] = "write_n"
         THEN /\ bus_open' = TRUE
              /\ i2c_pc' = [i2c_pc EXCEPT ![t] = "write_bytes"]
              /\ UNCHANGED <<i2c_mutex, i2c_result>>
         ELSE /\ bus_open' = TRUE
              /\ i2c_pc' = [i2c_pc EXCEPT ![t] = "read_address"]
              /\ UNCHANGED <<i2c_mutex, i2c_result>>
    /\ UNCHANGED <<i2c_op, i2c_count, i2c_index, i2c_stored>>
    /\ iOthers

\* read (): after stop (); start (); the address with the read bit is
\* written
I2cReadAddress(t, acked) ==
    /\ i2c_pc[t] = "read_address"
    /\ bus_open' = TRUE
    /\ IF ~acked
         THEN /\ i2c_mutex' = NoTask
              /\ i2c_result' = [i2c_result EXCEPT ![t] = "error"]
              /\ i2c_pc' = [i2c_pc EXCEPT ![t] = "idle"]
         ELSE /\ i2c_pc' = [i2c_pc EXCEPT ![t] = "read_bytes"]
              /\ UNCHANGED <<i2c_mutex, i2c_result>>
    /\ i2c_index' = [i2c_index EXCEPT ![t] =
                        IF acked /\ i2c_op[t] = "read_n"
                          THEN read_loop_start(i2c_count[t]) ELSE 0]
    /\ UNCHANGED <<i2c_op, i2c_count, i2c_stored>>
    /\ iOthers

\* read (): one pass of for (...; index; index--) *p_buffer++ =
\* read_byte (true), or, the loop left, the last byte, stop () and the
\* mutex given; the read () of one byte stores nothing through a pointer
I2cReadByte(t) ==
    /\ i2c_pc[t] = "read_bytes"
    /\ IF i2c_index[t] # 0
         THEN /\ i2c_stored' = [i2c_stored EXCEPT ![t] = @ + 1]
              /\ i2c_index' = [i2c_index EXCEPT ![t] = @ - 1]
              /\ UNCHANGED <<i2c_mutex, i2c_pc, i2c_result, bus_open>>
         ELSE /\ i2c_stored' = [i2c_stored EXCEPT ![t] =
                                   IF i2c_op[t] = "read_n" THEN @ + 1 ELSE @]
              /\ bus_open' = FALSE
              /\ i2c_mutex' = NoTask
              /\ i2c_result' = [i2c_result EXCEPT ![t] = "ok"]
              /\ i2c_pc' = [i2c_pc EXCEPT ![t] = "idle"]
              /\ UNCHANGED i2c_index
    /\ UNCHANGED <<i2c_op, i2c_count>>
    /\ iOthers

\* write () of count bytes: the loop over the bytes; a byte that is not
\* acknowledged ends the call
I2cWriteBytes(t, all_acked) ==
    /\ i2c_pc[t] = "write_bytes"
    /\ i2c_count[t] = 0 => all_acked
    /\ bus_open' = ~all_acked
    /\ i2c_mutex' = NoTask
    /\ i2c_result' = [i2c_result EXCEPT ![t] =
                         IF all_acked THEN "ok" ELSE "error"]
    /\ i2c_pc' = [i2c_pc EXCEPT ![t] = "idle"]
    /\ UNCHANGED <<i2c_op, i2c_count, i2c_index, i2c_stored>>
    /\ iOthers

\* ping (): start (); write_byte (address); stop (); the mutex is given
I2cPing(t, is_someone_there) ==
    /\ i2c_pc[t] = "ping"
    /\ bus_open' = FALSE
    /\ i2c_mutex' = NoTask
    /\ i2c_result' = [i2c_result EXCEPT ![t] =
                         IF is_someone_there THEN "ok" ELSE "error"]
    /\ i2c_pc' = [i2c_pc EXCEPT ![t] = "idle"]
    /\ UNCHANGED <<i2c_op, i2c_count, i2c_index, i2c_stored>>
    /\ iOthers

\* heading (): start (), the address and the 'A' command; stop () in
\* either case, and without an acknowledgement give_mutex () and return
I2cHeadingCommand(t, acked) ==
    /\ i2c_pc[t] = "command"
    /\ bus_open' = FALSE
    /\ IF ~acked
         THEN /\ i2c_mutex' = NoTask
              /\ i2c_result' = [i2c_result EXCEPT ![t] = "error"]
              /\ i2c_pc' = [i2c_pc EXCEPT ![t] = "idle"]
         ELSE /\ i2c_pc' = [i2c_pc EXCEPT ![t] = "delay"]
              /\ UNCHANGED <<i2c_mutex, i2c_result>>
    /\ UNCHANGED <<i2c_op, i2c_count, i2c_index, i2c_stored>>
    /\ iOthers

\* heading (): vTaskDelay (configMS_TO_TICKS (7)) has passed; start (), the
\* read address, two bytes, stop (), give_mutex ()
I2cHeadingRead(t) ==
    /\ i2c_pc[t] = "delay"
    /\ bus_open' = FALSE
    /\ i2c_mutex' = NoTask
    /\ i2c_result' = [i2c_result EXCEPT ![t] = "ok"]
    /\ i2c_pc' = [i2c_pc EXCEPT ![t] = "idle"]
    /\ UNCHANGED <<i2c_op, i2c_count, i2c_index, i2c_stored>>
    /\ iOthers

\* i2c_master::i2c_master (): the mutex is created and free
InitI2c ==
    /\ i2c_mutex = NoTask
    /\ i2c_pc = [t \in I2cTasks |-> "idle"]
    /\ i2c_op = [t \in I2cTasks |-> "ping"]
    /\ i2c_count = [t \in I2cTasks |-> 0]
    /\ i2c_index = [t \in I2cTasks |-> 0]
    /\ i2c_stored = [t \in I2cTasks |-> 0]
    /\ i2c_result = [t \in I2cTasks |-> "none"]
    /\ bus_open = FALSE

NextI2c ==
    \/ \E t \in I2cTasks, op \in I2cOps, count \in I2cCounts :
          I2cCall(t, op, count)
    \/ \E t \in I2cTasks : I2cTake(t)
    \/ \E t \in I2cTasks, acked \in BOOLEAN : I2cAddress(t, acked)
    \/ \E t \in I2cTasks, acked \in BOOLEAN : I2cReadAddress(t, acked)
    \/ \E t \in I2cTasks : I2cReadByte(t)
    \/ \E t \in I2cTasks, all_acked \in BOOLEAN : I2cWriteBytes(t, all_acked)
    \/ \E t \in I2cTasks, is_someone_there \in BOOLEAN :
          I2cPing(t, is_someone_there)
    \/ \E t \in I2cTasks, acked \in BOOLEAN : I2cHeadingCommand(t, acked)
    \/ \E t \in I2cTasks : I2cHeadingRead(t)


(***************************************************************************)
(* The task set of main_mega.cpp under the preemptive scheduler            *)
(***************************************************************************)
MaxSchedTick == 7

\* new fifth_wheel ("fifth_wheel", 1, ...); ... the priorities given
TaskPriority ==
    [fifth_wheel |-> 1, gear_shifter |-> 1, imu |-> 5, communicator |-> 5,
     motor |-> 6, steering |-> 6, speed_sensor |-> 9]

MegaTasks == DOMAIN TaskPriority
\* the tasks whose run () is an empty body
ReturningTasks == {"motor", "speed_sensor"}
\* the tasks whose run () is a for (;;) loop without a delay or a blocking
\* call in it
LoopingTasks == {"fifth_wheel", "gear_shifter", "imu", "steering"}

\* the ready tasks of the highest priority among the ready tasks: the
\* scheduler runs one of them
HighestReady(pc) ==
    {t \in MegaTasks :
        /\ pc[t] = "ready"
        /\ \A u \in MegaTasks :
               pc[u] = "ready" => TaskPriority[u] <= TaskPriority[t]}

\* the task that runs after a tick or a blocking call: a ready task of the
\* highest priority, and with several of them not the one that was
\* running, the time slice being over
SwitchContext(pc, was, now) ==
    /\ now \in HighestReady(pc)
    /\ (HighestReady(pc) # {was}) => now # was

\* run () returns at once; the wrapper sets the handle to 0 and calls
\* vTaskDelay (portMAX_DELAY)
SchedRunReturns(t, now) ==
    /\ sch_running = t
    /\ t \in ReturningTasks
    /\ ~sch_returned[t]
    /\ sch_returned' = [sch_returned EXCEPT ![t] = TRUE]
    /\ sch_pc' = [sch_pc EXCEPT ![t] = "delayed"]
    /\ SwitchContext(sch_pc', t, now)
    /\ sch_running' = now
    /\ UNCHANGED <<sch_pass, sch_tick>>
    /\ hOthers

\* the wrapper's for (;;) vTaskDelay (portMAX_DELAY); after a delay that
\* has expired
SchedReDelay(t, now) ==
    /\ sch_running = t
    /\ sch_returned[t]
    /\ sch_pc' = [sch_pc EXCEPT ![t] = "delayed"]
    /\ SwitchContext(sch_pc', t, now)
    /\ sch_running' = now
    /\ UNCHANGED <<sch_returned, sch_pass, sch_tick>>
    /\ hOthers

\* one pass of the for (;;) loop of a run () that never delays
SchedLoopPass(t) ==
    /\ sch_running = t
    /\ t \in LoopingTasks
    /\ sch_pass' = [sch_pass EXCEPT ![t] = 1 - @]
    /\ UNCHANGED <<sch_running, sch_pc, sch_returned, sch_tick>>
    /\ hOthers

\* the tick interrupt: the tick count goes up, the delays that end at this
\* tick make their tasks ready, and the context is switched
SchedTick(woken, now) ==
    /\ \A t \in woken : sch_pc[t] = "delayed"
    /\ sch_tick' = (sch_tick + 1) % (MaxSchedTick + 1)
    /\ sch_pc' = [t \in MegaTasks |->
                     IF t \in woken THEN "ready" ELSE sch_pc[t]]
    /\ SwitchContext(sch_pc', sch_running, now)
    /\ sch_running' = now
    /\ UNCHANGED <<sch_returned, sch_pass>>
    /\ hOthers

\* the scheduler has been started with the seven tasks created: the task
\* of the highest priority runs
InitSched ==
    /\ sch_running = "speed_sensor"
    /\ sch_pc = [t \in MegaTasks |-> "ready"]
    /\ sch_returned = [t \in MegaTasks |-> FALSE]
    /\ sch_pass = [t \in MegaTasks |-> 0]
    /\ sch_tick = 0

NextSched ==
    \/ \E t, now \in MegaTasks : SchedRunReturns(t, now)
    \/ \E t, now \in MegaTasks : SchedReDelay(t, now)
    \/ \E t \in MegaTasks : SchedLoopPass(t)
    \/ \E woken \in SUBSET ReturningTasks, now \in MegaTasks :
          SchedTick(woken, now)


ProducerStep ==
    \/ \E x \in Items : x = Len(accepted) + 1 /\ PutCall(x)
    \/ PutWake
    \/ PutTimeout
    \/ PutReturn

ConsumerStep == GetCall \/ LookAtCall \/ ConsWake \/ ConsTimeout \/ ConsReturn

NextQueue == ProducerStep \/ ConsumerStep \/ QueueTick

\* a producer that also calls butt_in()
NextQueueFront ==
    \/ NextQueue
    \/ \E x \in Items : x = Len(accepted) + 1 /\ ButtInCall(x)

Init ==
    /\ InitQueue
    /\ InitShare
    /\ InitSerial
    /\ InitCounter
    /\ InitStamp
    /\ InitNow
    /\ InitTask
    /\ InitGear
    /\ InitDelayUntil
    /\ InitShareList
    /\ InitTaskList
    /\ InitPutchar
    /\ InitPorts
    /\ InitGlob
    /\ InitCommData
    /\ InitMegaComm
    /\ InitRoundTrip
    /\ InitCircBuffer
    /\ InitI2c
    /\ InitSched

Next ==
    \/ NextQueueFront
    \/ NextShare
    \/ NextSerial
    \/ NextCounter
    \/ NextStamp
    \/ NextNow
    \/ NextTask
    \/ NextGear
    \/ NextDelayUntil
    \/ NextShareList
    \/ NextTaskList
    \/ NextPutchar
    \/ NextPorts
    \/ NextGlob
    \/ NextCommData
    \/ NextMegaComm
    \/ NextRoundTrip
    \/ NextCircBuffer
    \/ NextI2c
    \/ NextSched

Spec == Init /\ [][Next]_vars

\* each component is run from the constructed state, with the other
\* components as main () of task_comm constructs them
QueueAtRest == ticks_to_wait = portMAX_DELAY
ShareAtRest == the_data = ZeroWord
CounterAtRest == counter_data = 0
TaskAtRest == handle = "null"

InitQueueRun ==
    Init /\ ShareAtRest /\ CounterAtRest /\ StampAtRest /\ TaskAtRest

InitShareRun ==
    Init /\ QueueAtRest /\ CounterAtRest /\ StampAtRest /\ TaskAtRest

InitSerialRun ==
    Init /\ QueueAtRest /\ ShareAtRest /\ CounterAtRest /\ StampAtRest
         /\ TaskAtRest

InitCounterRun ==
    Init /\ QueueAtRest /\ ShareAtRest /\ StampAtRest /\ TaskAtRest

InitStampRun ==
    Init /\ QueueAtRest /\ ShareAtRest /\ CounterAtRest /\ TaskAtRest

InitNowRun ==
    Init /\ QueueAtRest /\ ShareAtRest /\ CounterAtRest /\ StampAtRest
         /\ TaskAtRest

InitTaskRun ==
    Init /\ QueueAtRest /\ ShareAtRest /\ CounterAtRest /\ StampAtRest

SpecQueue == InitQueueRun /\ [][NextQueue]_vars

SpecQueueFront == InitQueueRun /\ [][NextQueueFront]_vars

SpecShare == InitShareRun /\ [][NextShare]_vars

SpecSerial == InitSerialRun /\ [][NextSerial]_vars

SpecCounter == InitCounterRun /\ [][NextCounter]_vars

SpecStamp == InitStampRun /\ [][NextStamp]_vars

SpecNow == InitNowRun /\ [][NextNow]_vars

SpecTask == InitTaskRun /\ [][NextTask]_vars

\* a component whose construction leaves no choice is run with every other
\* component as constructed
InitAtRest ==
    Init /\ QueueAtRest /\ ShareAtRest /\ CounterAtRest /\ StampAtRest
         /\ TaskAtRest

SpecGear == InitAtRest /\ [][NextGear]_vars

SpecDelayUntil == InitAtRest /\ [][NextDelayUntil]_vars

SpecShareList == InitAtRest /\ [][NextShareList]_vars

SpecTaskList == InitAtRest /\ [][NextTaskList]_vars

SpecPutchar == InitAtRest /\ [][NextPutchar]_vars

SpecPorts == InitAtRest /\ [][NextPorts]_vars

SpecGlob == InitAtRest /\ [][NextGlob]_vars

SpecCommData == InitAtRest /\ [][NextCommData]_vars

SpecMegaComm == InitAtRest /\ [][NextMegaComm]_vars

SpecRoundTrip == InitAtRest /\ [][NextRoundTrip]_vars

\* the task runs when it can, and the Pi goes on sending while the
\* receive interrupt is let through
MegaCommFairness ==
    /\ WF_vars(ReadFromPiEnters) /\ WF_vars(ReadFromPiGetchar)
    /\ WF_vars(\E ch \in PiBytes : PiReceiveISR(ch))

FairSpecMegaComm == SpecMegaComm /\ MegaCommFairness

\* the gear_shifter task keeps being scheduled: every step of run () that
\* can be taken is taken
GearFairness ==
    /\ WF_vars(GsRunEnters) /\ WF_vars(GsTest) /\ WF_vars(GsPick)
    /\ WF_vars(GsShift) /\ WF_vars(GsAssign)

FairSpecGear == SpecGear /\ GearFairness

SpecCircBuffer == InitAtRest /\ [][NextCircBuffer]_vars

SpecI2c == InitAtRest /\ [][NextI2c]_vars

SpecSched == InitAtRest /\ [][NextSched]_vars

\* the processor always executes the running task, and the tick interrupt
\* keeps coming
SchedFairness ==
    /\ WF_vars(\E t, now \in MegaTasks : SchedRunReturns(t, now))
    /\ WF_vars(\E t, now \in MegaTasks : SchedReDelay(t, now))
    /\ WF_vars(\E t \in MegaTasks : SchedLoopPass(t))
    /\ WF_vars(\E woken \in SUBSET ReturningTasks, now \in MegaTasks :
                   SchedTick(woken, now))

FairSpecSched == SpecSched /\ SchedFairness

\* a task that is ready runs: the parked task calls vTaskDelay again, and
\* the tick interrupt keeps counting its delay down
TaskFairness ==
    /\ WF_vars(TaskClearHandle) /\ WF_vars(TaskDelayCall)
    /\ WF_vars(TaskDelayTick) /\ WF_vars(TaskDelayExpires)

FairSpecTask == SpecTask /\ TaskFairness

\* The kernel always completes a call it can complete and the tick interrupt
\* always fires; the consumer task's loop calls get() again and again.
QueueFairness ==
    /\ WF_vars(PutWake) /\ WF_vars(PutTimeout) /\ WF_vars(PutReturn)
    /\ WF_vars(ConsWake) /\ WF_vars(ConsTimeout) /\ WF_vars(ConsReturn)
    /\ WF_vars(QueueTick)
    /\ SF_vars(GetCall)

FairSpecQueue == SpecQueue /\ QueueFairness

(***************************************************************************)
(* Claims about TaskQueue<T>                                               *)
(***************************************************************************)

\* C1: with a producer task calling put() and a consumer task calling get()
\* under any interleaving, the items get() has taken out, followed by the
\* items still queued, are exactly the items whose put() returned true, in
\* put order (no loss, duplication or reordering), and the n-th accepted
\* item is eventually taken out by get().
QueueDeliversOnceInOrder ==
    /\ [](received \o q = accepted)
    /\ \A n \in 1..MaxPuts : (Len(accepted) >= n) ~> (Len(received) >= n)

C1Witness ==
    /\ Len(received) >= 3
    /\ received = accepted
    /\ received[1] # received[2]
    /\ q = <<>>

\* C2: n <= capacity consecutive puts of x1..xn onto an empty queue with no
\* get in between, followed by gets, return x1..xn in that order.
PutsThenGetsInOrder == runOK => IsPrefix(runGets, runPuts)

C2Witness ==
    /\ runOK
    /\ Len(runPuts) = QueueSize
    /\ runGets = runPuts
    /\ runPuts[1] # runPuts[2]

\* C8: a get() on a queue constructed with a finite wait bound is never
\* blocked for longer than that bound.
GetHonoursWaitBound ==
    (cons_pc = "blocked" /\ cons_op = "get" /\ ticks_to_wait # portMAX_DELAY)
        => cons_waited <= ticks_to_wait

\* C9: when get() or look_at() gives up without an item from the queue, the
\* value it returns is the zero value of T.
GiveUpReturnsDefault ==
    (cons_pc = "done" /\ ~got_item) => recv_item = DefaultT

\* C10: a put() on a full queue whose wait bound is zero, or whose wait bound
\* has elapsed with the queue still full, returns false and leaves the
\* queue's contents and num_items_in() as they were.
PutRefusedLeavesQueue ==
    [][ ( /\ QueueIsFull(q)
          /\ \/ prod_pc = "idle" /\ prod_pc' # "idle" /\ ticks_to_wait = 0
             \/ /\ prod_pc = "blocked" /\ prod_pc' # "blocked"
                /\ prod_waited >= ticks_to_wait )
        => ( /\ prod_pc' = "done"
             /\ put_result' = FALSE
             /\ q' = q
             /\ num_items_in' = num_items_in ) ]_vars

C10Witness ==
    /\ prod_pc = "done"
    /\ ~put_result
    /\ ticks_to_wait > 0
    /\ prod_waited >= ticks_to_wait
    /\ num_items_in = QueueSize

(***************************************************************************)
(* Claims about TaskShare<T>                                               *)
(***************************************************************************)

\* C3: with a single writer, a get() that begins after put(v1) and put(v2)
\* have both completed, and with no further put() running, returns v2 (the
\* value of the last completed put), whatever the other readers are doing.
GetReturnsLatestPut ==
    \A r \in ShareReaders :
        (rd_done[r] /\ rd_after[r]) => rd_result[r] = rd_expect[r]

C3Witness ==
    \E r \in ShareReaders :
        /\ rd_done[r] /\ rd_after[r]
        /\ rd_result[r] = last_put
        /\ prev_put \in ShareValues
        /\ prev_put # last_put
        /\ \E o \in ShareReaders \ {r} : rd_pc[o] = "enter"

\* C4: a TaskShare<uint32_t>::get() running concurrently with put() calls of
\* another task returns a value that some put() was called with (0x12345678
\* or 0x87654321), never a mixture of bytes of two writes.
GetNeverTorn ==
    \A r \in ShareReaders : rd_done[r] => rd_result[r] \in put_values

C4Witness ==
    /\ rd_done["sink"]
    /\ rd_result["sink"] = V87654321
    /\ wr_pc = "enter"
    /\ wr_val = V12345678
    /\ last_put = V12345678

(***************************************************************************)
(* Claims about the rs232 receive buffer                                   *)
(***************************************************************************)

\* C5: when the receive ISR has put RSINT_BUF_SIZE + 1 bytes into the empty
\* buffer before the first getchar() call, getchar() calls retrieve exactly
\* the last RSINT_BUF_SIZE of them, in arrival order.
DropOldestKeepsLastN ==
    ( /\ first_get_at = RSINT_BUF_SIZE + 1
      /\ arrivals = RSINT_BUF_SIZE + 1
      /\ g_pc = "idle"
      /\ rcv0_read_index = rcv0_write_index )
    => got = [i \in 1..RSINT_BUF_SIZE |-> i + 1]

\* C6: the receive ISR never runs between getchar()'s test of the two
\* indices and its update of the read index.
ISRNeverInsideGetchar ==
    [][ (arrivals' # arrivals)
        => g_pc \notin {"read", "inc_load", "inc_store", "wrap"} ]_vars

\* C7: the write index is always inside the buffer, the read index is
\* inside the buffer whenever getchar() is not between storing the
\* incremented index and wrapping it, and the number of unread bytes never
\* exceeds the buffer size.
SerialIndicesInRange ==
    /\ rcv0_write_index \in 0..(RSINT_BUF_SIZE - 1)
    /\ g_pc # "wrap" => rcv0_read_index \in 0..(RSINT_BUF_SIZE - 1)
    /\ g_pc = "idle" => SerUnread <= RSINT_BUF_SIZE

C7Witness ==
    /\ g_pc = "idle"
    /\ arrivals = RSINT_BUF_SIZE + 1
    /\ Len(got) >= RSINT_BUF_SIZE - 2
    /\ rcv0_read_index = 0
    /\ rcv0_write_index = 1
    /\ SerUnread = 1

(***************************************************************************)
(* Claims about butt_in() and look_at()                                    *)
(***************************************************************************)

\* C11 as stated: after put(a) and then butt_in(b) on a queue that had room
\* for both, the next two get() calls return b and then a.
FrontInsertThenTwoGets ==
    (fi_stage = 3 /\ fi_len + 2 <= QueueSize) => fi_gets = <<fi_b, fi_a>>

\* C11: after put(a) and then butt_in(b) on an empty queue, the next two
\* get() calls return b and then a.
FrontInsertOnEmptyThenTwoGets ==
    (fi_stage = 3 /\ fi_len = 0) => fi_gets = <<fi_b, fi_a>>

C11Witness ==
    /\ fi_stage = 3
    /\ fi_len = 0
    /\ fi_a # fi_b
    /\ fi_gets = <<fi_b, fi_a>>

\* C12: look_at() on a non-empty queue returns the head item and leaves the
\* queue as it was: num_items_in() is the same afterwards, and the next
\* get() returns that same item.
LookAtLeavesQueue ==
    /\ [][ (cons_op' = "look_at" /\ got_item' /\ ~got_item)
            => /\ q # <<>>
               /\ recv_item' = Head(q)
               /\ q' = q
               /\ num_items_in' = num_items_in ]_vars
    /\ [] ( ( /\ cons_pc = "done" /\ cons_op = "get" /\ got_item
              /\ peeked # DefaultT )
            => recv_item = peeked )

C12Witness ==
    /\ cons_pc = "done"
    /\ cons_op = "get"
    /\ got_item
    /\ peeked # DefaultT
    /\ recv_item = peeked
    /\ Len(received) >= 2

(***************************************************************************)
(* Claims about the ++ and -- operators of TaskShare<T>                    *)
(***************************************************************************)

\* C13: each of the prefix and postfix ++ and -- operators returns the
\* value the share holds after that operation.
OperatorReturnsValueAfter ==
    \A t \in CtrTasks : c_pc[t] = "done" => c_result[t] = c_after[t]

\* C14: ++ and -- are atomic read-modify-writes: after k increments and m
\* decrements made by concurrent tasks the counter holds its initial value
\* plus k minus m (as an int8_t).
IncDecAtomic ==
    counter_data = Int8(c_init + c_incs - c_decs)

C14Witness ==
    /\ \A t \in CtrTasks : c_pc[t] = "idle"
    /\ c_contended
    /\ c_incs >= 1
    /\ c_decs >= 1
    /\ c_incs + c_decs = MaxOps
    /\ counter_data = Int8(c_init + c_incs - c_decs)

(***************************************************************************)
(* Claims about time_stamp                                                 *)
(***************************************************************************)

\* C15: for valid time stamps t1 >= t2, t2 + (t1 - t2) == t1: the test
\* yields true and the sum is the t1 that was given.
StampRoundTrip ==
    ts_pc = "done" => (ts_same /\ ts_equal(ts_sum, ts_orig1))

\* C16: for valid time stamps the result of t1 + t2, and of t1 - t2 when
\* t1 >= t2, has 0 <= hardware_count < TMR_MAX_CT.
StampHardwareCountInRange ==
    /\ ts_pc \in {"added", "subtracted", "summed", "done"}
          => ts_add.hardware_count \in 0..(TMR_MAX_CT - 1)
    /\ ts_pc \in {"subtracted", "summed", "done"}
          => ts_diff.hardware_count \in 0..(TMR_MAX_CT - 1)

C16Witness ==
    /\ ts_pc = "subtracted"
    /\ ts_orig1.hardware_count + ts_t2.hardware_count >= TMR_MAX_CT
    /\ ts_orig1.hardware_count < ts_t2.hardware_count
    /\ ts_add.hardware_count \in 0..(TMR_MAX_CT - 1)
    /\ ts_diff.hardware_count \in 0..(TMR_MAX_CT - 1)

\* the order by tick count first and hardware count second
LexLess(a, b) ==
    \/ a.tick_count < b.tick_count
    \/ a.tick_count = b.tick_count /\ a.hardware_count < b.hardware_count

SetToNowNotTorn ==
    now_pc = "done" => now_stamp.tick_count = matches_at_hw

(***************************************************************************)
(* Claims about TaskBase                                                   *)
(***************************************************************************)

\* C19 as stated: once run () has returned and the wrapper has parked the
\* task, the task is never deleted, stays blocked and never executes user
\* code again.
ParkedStaysBlocked ==
    tk_parked => (tk_pc = "delayed" /\ ~tk_user_late)

\* C19: once run () has returned the task is never deleted and never
\* executes user code again; it is blocked in vTaskDelay (portMAX_DELAY),
\* and each time that delay expires it does nothing but call vTaskDelay
\* again.
ParkedForever ==
    /\ [] ( tk_pc \in {"returned", "park", "delayed"}
              => [] (tk_pc \in {"returned", "park", "delayed"}) )
    /\ [] ~tk_user_late
    /\ [] (tk_parked => tk_pc \in {"park", "delayed"})
    /\ (tk_pc \in {"returned", "park"}) ~> (tk_pc = "delayed")

C19Witness ==
    /\ tk_parked
    /\ tk_pc = "delayed"
    /\ tk_wakes >= 1
    /\ handle = "null"
    /\ runs >= 1

\* C20: if xTaskCreate fails inside the TaskBase constructor, the object is
\* left handle-invalid: operator bool yields false.
CreateFailureLeavesInvalid ==
    (task_status = "fail" /\ tk_valid # "untested") => tk_valid = "false"

(***************************************************************************)
(* Claims about the state machine cursor of a task and gear_shifter        *)
(***************************************************************************)

\* C21: the state machine cursor of a task wrapper (state) is written only
\* by code running in that task's own context: every step that changes
\* state is a step of the task itself, never one of another task.
StateWrittenByOwnTask == [][state' # state => gs_ctx' = "gear_shifter"]_vars

\* the task has moved its cursor to third gear while another task was
\* calling into the object
C21Witness == state = THIRD_GEAR /\ gs_ctx = "other" /\ gs_got

\* C30: get_actual_level () returns the gear the truck is in.  Stated for
\* the calls that do not fall between a shift and the assignment to state
\* that follows it: such a call returns a gear in {1, 2, 3}, the value of
\* semi_data->actual_gear.
GetActualLevelIsActualGear ==
    (gs_got /\ gs_quiet_then) =>
        /\ gs_result \in {FIRST_GEAR, SECOND_GEAR, THIRD_GEAR}
        /\ gs_result = gs_actual_then

(***************************************************************************)
(* Claims about periodic release                                           *)
(***************************************************************************)

\* C22: a task whose loop ends with delay_from_for (reference_tick, d),
\* the reference starting at t0, is made ready at the ticks t0 + d,
\* t0 + 2d, ...: each call advances the reference by exactly d, and as long
\* as no pass of the loop takes longer than d the k-th release is at
\* t0 + k * d, whatever time the passes took.
PeriodicReleaseNoDrift ==
    /\ previousTicks = du_t0 + du_calls * ms_to_ticks(du_ms)
    /\ ~du_overrun =>
         \A k \in 1..Len(du_releases) :
             du_releases[k] = du_t0 + k * ms_to_ticks(du_ms)

\* two releases of a task whose passes took time, none longer than the
\* period
C22Witness ==
    /\ Len(du_releases) >= 2
    /\ du_slack
    /\ ~du_overrun
    /\ du_t0 > 0

(***************************************************************************)
(* Claims about the lists of shared data items and of tasks                *)
(***************************************************************************)

TaskListLastFirst ==
    /\ tl_pc = "idle_task" =>
         /\ tl_visited = Reverse(tl_order_then)
         /\ tl_order_then # <<>> => tl_at = tl_order_then[1]
    /\ tl_pc = "in_list" =>
         /\ tl_at # 0
         /\ Len(tl_visited) < Len(tl_order_then)
         /\ \A i \in 1..Len(tl_visited) :
                tl_visited[i] = Reverse(tl_order_then)[i]

\* a stack printout of three or more tasks has come to its end
C24Witness ==
    /\ tl_pc = "idle_task"
    /\ tl_which = "print_task_stacks"
    /\ Len(tl_visited) >= 3

(***************************************************************************)
(* Claims about the serial port driver                                     *)
(***************************************************************************)

\* C25: rs232::putchar () always returns after a bounded number of polling
\* iterations: no call tests the flag more than UART_TX_TOUT + 2 times,
\* and a call still polling has tested it count times with count at most
\* UART_TX_TOUT + 1, so that the next test is the last.  If the flag never
\* sets, putchar () gives up once count has passed UART_TX_TOUT and the
\* character is dropped: the data register is not written.
PutcharGivesUp ==
    /\ tx_polls <= UART_TX_TOUT + 2
    /\ tx_pc = "poll" =>
         /\ tx_polls = tx_count
         /\ tx_count <= UART_TX_TOUT + 1
    /\ tx_pc = "gave_up" =>
         /\ tx_count > UART_TX_TOUT
         /\ ~tx_wrote
         /\ UDR = tx_UDR_before

\* a call has given up on its character after the last test of the flag
C25Witness ==
    /\ tx_pc = "gave_up"
    /\ tx_polls = UART_TX_TOUT + 2
    /\ UDR # tx_chout

\* C26: the receive interrupt of one serial port and the getchar () and
\* check_for_char () calls for that port never read or modify the receive
\* buffer or the indices of the other port: a step taken for port p reads
\* and writes the variables of port p only, and leaves the buffer and both
\* indices of the other port as they were.
PortsKeepApart ==
    [][\A p \in PortNums :
          pp_port' = p =>
              /\ pp_touched' \subseteq {p}
              /\ rcv_buffer'[OtherPort(p)] = rcv_buffer[OtherPort(p)]
              /\ rcv_read_index'[OtherPort(p)] = rcv_read_index[OtherPort(p)]
              /\ rcv_write_index'[OtherPort(p)] =
                     rcv_write_index[OtherPort(p)]]_vars

\* getchar () has taken a character from port 1 while port 0 holds unread
\* characters of its own
C26Witness ==
    /\ pp_op = "getchar"
    /\ pp_port = 1
    /\ rcv_read_index[1] = 1
    /\ rcv_write_index[0] = 2
    /\ rcv_read_index[0] = 0
    /\ rcv_buffer[0][0] # pp_char

(***************************************************************************)
(* Claims about the unprotected global of task_comm                        *)
(***************************************************************************)

\* C27: in task_comm the sink can read from the unprotected glob_of_probs a
\* value that is neither 0x12345678 nor 0x87654321, because a task switch
\* occurs while the 32-bit variable is being written or read.  The state in
\* which it has done so is C27Witness; what holds of every read is the
\* cause: once the source has assigned the global, a value the sink has
\* read that is neither of the two is made of bytes of both, and the other
\* task ran while the read, or the write it met, was under way.
TornReadNeedsSwitch ==
    (gp_pc = "compare" /\ gp_written_then
        /\ sink_sees_error(received_data)) =>
        /\ gp_switched
        /\ \A i \in 1..4 :
               received_data[i] \in {V12345678[i], V87654321[i]}

\* the sink has read a value that is neither constant, after the source
\* had written the global, and has counted the error
C27Witness ==
    /\ global_errors >= 1
    /\ gp_written_then
    /\ gp_switched
    /\ gp_pc = "read"
    /\ gp_ri = 0
    /\ sink_sees_error(received_data)

(***************************************************************************)
(* Claims about communication_data and mega_comm_task                      *)
(***************************************************************************)

\* C29: for every field of communication_data, set_<field> (v) sets that
\* field: after the call the member that get_<field> () returns holds v,
\* and the member every other getter returns is what it was before.
SetterSetsItsField ==
    [][cd_op' = "set" /\ <<cd_op, cd_field, cd_val, data_for_tasks>>'
                             # <<cd_op, cd_field, cd_val, data_for_tasks>> =>
          /\ data_for_tasks'[getter_source(cd_field')] = cd_val'
          /\ \A g \in Fields \ {cd_field'} :
                 data_for_tasks'[getter_source(g)] =
                     data_for_tasks[getter_source(g)]]_vars

\* C28: mega_comm_task::run () runs an infinite loop: it never returns, and
\* for ever repeats reading from the Pi and then writing back to it.  As a
\* property of every state: run () has not returned.
RunNeverReturns == mc_pc \notin {"returned", "parked"}

(***************************************************************************)
(* Further claims about time stamps                                        *)
(***************************************************************************)

\* C35: evaluating t1 - t2 on time stamps leaves both operands unchanged;
\* only the returned time stamp carries the difference: the step that
\* subtracts changes neither t1 nor t2.
SubtractLeavesOperands ==
    [][ts_pc' = "subtracted" /\ ts_pc = "added" =>
          /\ ts_t1' = ts_t1
          /\ ts_t2' = ts_t2]_vars

(***************************************************************************)
(* Further claims about mega_comm_task                                     *)
(***************************************************************************)

\* C36: for every 16-bit value v, the two bytes write_16bit_val (v) emits,
\* fed in the same order to read_16bit_val (), reconstruct v: what
\* read_16bit_val () returns is v.
WordRoundTrip == rt_pc = "read" => rt_ret_val = rt_v

\* C34: read_from_pi () always returns and re-enables interrupts, however
\* many bytes the receive buffer holds when it is called; it never waits
\* for ever inside its critical section for bytes that have not arrived:
\* a read_from_pi () that is getting characters comes to its end, where
\* the critical section is left and write_to_pi () is next.
ReadFromPiReturns == (mc_pc = "getchar") ~> (mc_pc = "write_to_pi" /\ ~mc_crit)

(***************************************************************************)
(* Further claims about gear_shifter                                       *)
(***************************************************************************)

\* C37: if desired_gear is set to some g in {1, 2, 3} and then held, and
\* the gear_shifter task keeps being scheduled, then eventually
\* actual_gear = g and state = g, and both stay equal to g for as long as
\* desired_gear is unchanged: for every gear g, if from some time on the
\* desired gear is g, then from some time on the actual gear and the
\* state are g.
ShifterReachesDesired ==
    \A g \in {FIRST_GEAR, SECOND_GEAR, THIRD_GEAR} :
        <>[](desired_gear = g) => <>[](actual_gear = g /\ state = g)

(***************************************************************************)
(* Further claims about the serial port driver                             *)
(***************************************************************************)

\* the bytes between the read index and the write index, the unread ones
SerUnreadBytes ==
    {rcv0_buffer[(rcv0_read_index + i) % RSINT_BUF_SIZE] :
         i \in 0..(SerUnread - 1)}

\* C33: under any interleaving of the receive ISR with getchar (), the
\* bytes successive getchar () calls return are a subsequence of the
\* arrival order with no byte returned twice, and the only bytes skipped
\* are the oldest unread ones an overrun discarded: between calls, a byte
\* that has arrived has been returned, or is still unread in the buffer,
\* or is so old that RSINT_BUF_SIZE - 1 newer bytes arrived after it.
GetcharSubsequence ==
    /\ \A i, j \in 1..Len(got) : i < j => got[i] < got[j]
    /\ g_pc = "idle" =>
         \A k \in 1..arrivals :
             \/ \E i \in 1..Len(got) : got[i] = k
             \/ k \in SerUnreadBytes
             \/ arrivals >= k + RSINT_BUF_SIZE - 1

(***************************************************************************)
(* Claims about circ_buffer                                                *)
(***************************************************************************)

\* C32: operator[] (index) returns the index-th oldest unread item when
\* index is less than the number of items held, returns (qType)(-1) when
\* there are not enough items in the buffer, and never reads outside the
\* buffer array.
SubscriptInBounds ==
    cb_op = "subscript" =>
        /\ ~cb_outside
        /\ cb_index < cb_full_then =>
               cb_result = cb_held_then[cb_index + 1]
        /\ cb_index >= cb_full_then => cb_result = CbMinusOne

(***************************************************************************)
(* Claims about i2c_master                                                 *)
(***************************************************************************)

StopBeforeRelease == i2c_mutex = NoTask => ~bus_open

\* C40: read (address, reg, p_buffer, count) stores exactly count bytes
\* into p_buffer for every count in 0..255, and never writes beyond the
\* first count bytes of the buffer.
ReadStoresCount ==
    \A t \in I2cTasks :
        i2c_op[t] = "read_n" =>
            /\ i2c_stored[t] <= i2c_count[t]
            /\ i2c_result[t] = "ok" => i2c_stored[t] = i2c_count[t]

(***************************************************************************)
(* Claims about the task set of main_mega.cpp                              *)
(***************************************************************************)

\* C39: with the task set and priorities of main_mega.cpp under the
\* preemptive fixed-priority scheduler, every task whose run () loops for
\* ever, the priority-1 gear_shifter and fifth_wheel tasks included, is
\* scheduled infinitely often; no task's loop monopolises the processor.
LoopingTasksKeepRunning ==
    \A t \in LoopingTasks : []<>(sch_running = t)

====
